---- MODULE Spec2Model ----
(***************************************************************************)
(* Model of the git deployer (deploy.go): deployer.process and             *)
(* deployer.deploy, the batch loop and the helpers they call.  Every call  *)
(* to a collaborator (Secret Manager, git, the renderer, the pull-request  *)
(* provider, GCS) is an event appended to a log, and its outcome (success  *)
(* or error) is chosen nondeterministically.  The helpers that read and    *)
(* rewrite the inventory and clear the output directory (findFieldIndices, *)
(* determineClustersToUpdate, updatePlatformAndWorkloadRepositoryRevision, *)
(* cleanHydratedDirectory) are operators, applied to bounded inputs by the *)
(* actions of SpecFunctions.                                               *)
(***************************************************************************)
EXTENDS Integers, Sequences, FiniteSets, TLC

VARIABLES
    pc,                 \* position of process/deploy
    params,             \* d.params, as determineParams validated them
    gitSourceRepo,      \* *gitRepository of the source repository (Nil before)
    gitOutputRepo,      \* *gitRepository of the output repository (Nil before)
    clustersToUpdate,   \* result of determineClustersToUpdate
    batchSize,          \* deploy's local batchSize
    numBatches,         \* deploy's local numBatches
    batchCounter,       \* deploy's local batchCounter
    i,                  \* loop variable of the batch loop
    batch,              \* clustersToUpdate[i:end] of the current iteration
    featureBranchName,  \* branch of the current iteration
    err,                \* error returned by deploy (NoErr while none)
    res,                \* *DeployResult returned by deploy (Nil while none)
    setupLog,           \* collaborator calls made before the batch loop
    batchLog,           \* collaborator calls made in the current iteration
    batches,            \* history: the batches handed to the per-batch steps
    states,             \* history: the top-level states deploy has entered
    pushed,             \* remote: <<repoName, branch>> pairs pushed so far
    pullRequests,       \* remote: pull requests opened so far
    artifacts,          \* artifacts handed to UploadArtifact, in order
    uploads,            \* results handed to UploadResult, in order
    ret,                \* error returned by process (NotReturned before)
    fnIn,               \* arguments of the helper function under study
    fnFile,             \* the file or directory the helper works on
    fnHist,             \* history: the calls of the helper, with their results
    ctx,                \* the context handed to process: cancelled or not
    git                 \* per workspace: the clusters whose revisions are updated
                        \* in the inventory of the working tree and of each branch

vars == <<pc, params, gitSourceRepo, gitOutputRepo, clustersToUpdate, batchSize,
          numBatches, batchCounter, i, batch, featureBranchName, err, res,
          setupLog, batchLog, batches, states, pushed, pullRequests, artifacts,
          uploads, ret, fnIn, fnFile, fnHist, ctx, git>>

fnVars == <<fnIn, fnFile, fnHist>>
deployFrame == <<params, gitSourceRepo, gitOutputRepo, clustersToUpdate, batchSize, numBatches,
                 batchCounter, i, batch, featureBranchName, err, res, setupLog, batchLog,
                 batches, states, pushed, pullRequests, artifacts, uploads, ret, git>>
loopVars == <<batchSize, numBatches, batchCounter, i, batch, featureBranchName>>
remoteVars == <<pushed, pullRequests>>
processVars == <<artifacts, uploads, ret>>

\* ------------------------------------------------------------------ bounds

MaxClusters == 3
MaxBatchSize == 2

\* ------------------------------------------------------------- input sets

Nil == [nil |-> TRUE]
NoErr == <<>>
NotReturned == <<"process has not returned">>

\* A repository reference is a string, held as the sequence of its pieces:
\* each piece is "/" or a string without "/".
SrcRef == <<"github.com", "/", "org", "/", "src">>
OutRef == <<"github.com", "/", "org", "/", "out">>
BadRef == <<"github.com", "/", "src">>

\* The name in the n-th selected row of the inventory.
ClusterName(n) == "cluster" \o ToString(n)

\* strconv.Atoi accepts any integer, negative and zero included.
BatchSizes == (0 - 1) .. MaxBatchSize

\* Request fields of d.req used in names and messages.
Rollout == "rollout"

\* ------------------------------------------------------- pure helpers

\* The elements of a sequence.
Range(s) == {s[j] : j \in 1 .. Len(s)}

\* The string made of the pieces of s.
RECURSIVE Join(_)
Join(s) == IF s = <<>> THEN "" ELSE Head(s) \o Join(Tail(s))

\* strings.Split(ref, "/"): the substrings between the separators, one more
\* than there are separators.
RECURSIVE Split(_)
Split(ref) ==
    IF \A j \in 1 .. Len(ref) : ref[j] # "/"
    THEN <<Join(ref)>>
    ELSE LET k == CHOOSE j \in 1 .. Len(ref) :
                      ref[j] = "/" /\ \A h \in 1 .. (j - 1) : ref[h] # "/"
         IN  <<Join(SubSeq(ref, 1, k - 1))>> \o Split(SubSeq(ref, k + 1, Len(ref)))

\* newGitRepository(hostname, owner, repoName, email, username); ptr is the
\* identity of the allocated object.
newGitRepository(parts, ptr) ==
    [hostname |-> parts[1], owner |-> parts[2], repoName |-> parts[3], ptr |-> ptr]

\* A name that leaves the batch counter out.
FeatureBranchOfTotal(k, n) == Rollout \o "__" \o ToString(n) \o "/" \o ToString(n)

\* fmt.Sprintf("%s__%d/%d", d.req.Rollout, batchCounter, numBatches)
FeatureBranch(k, n) == Rollout \o "__" \o ToString(k) \o "/" \o ToString(n)

\* A collaborator call: <<operation, repository or subject, argument>>.
Ev(op, ws, arg) == <<op, ws, arg>>

\* A call that has returned an answer: <<operation, subject, argument, answer>>.
Answered(ev, answer) == Append(ev, answer)

\* The calls made when the call at position f of ops fails (f = 0: none fails);
\* the failed call has no answer.
Attempted(ops, f) ==
    IF f = 0 THEN ops ELSE SubSeq(ops, 1, f - 1) \o <<SubSeq(ops[f], 1, 3)>>

\* deploy returns (nil, error): process goes on with the error.
Fail(msg, cause) ==
    /\ err' = <<msg, cause>>
    /\ pc' = "DeployReturned"

\* ---------------------------------------------------- git, by its contents

\* Git's own behaviour is not in deploy.go; it is taken here as the
\* specification tells it (section 4.3).
\* A workspace holds the inventory of its working tree and of its local and
\* remote branches; an inventory is told by the set of clusters whose
\* revisions this deploy has updated in it.  A branch's inventory is the set
\* of clusters paired with the branch's name.
Cloned == [head |-> "", tree |-> {}, heads |-> {}, local |-> {}, remote |-> {}]

\* The inventory of branch b among the pairs.
Content(pairs, b) == {p[2] : p \in {q \in pairs : q[1] = b}}

\* The pairs that put the clusters into branch b.
Into(b, clusters) == {<<b, c>> : c \in clusters}

\* CheckoutBranch(name): switches to the branch if present, creates it from
\* the current position if absent.
Checkout(w, b) ==
    IF b \in w.heads
    THEN [w EXCEPT !.head = b, !.tree = Content(w.local, b)]
    ELSE [w EXCEPT !.head = b, !.heads = w.heads \cup {b},
                   !.local = w.local \cup Into(b, Content(w.local, w.head))]

\* The effect of one successful call on its workspace; batch, feature and
\* dest are the batch, the feature branch and the pull request's destination
\* of the iteration.
ApplyGit(w, ev, clusters, feature, dest) ==
    CASE ev[1] = "cloneRepo" -> Cloned
      [] ev[1] = "checkoutBranch" -> Checkout(w, ev[3])
      [] ev[1] = "pull" ->
            [w EXCEPT !.local = w.local \cup Into(w.head, Content(w.remote, ev[3])),
                      !.tree = w.tree \cup Content(w.remote, ev[3])]
      [] ev[1] = "updatePlatformAndWorkloadRepositoryRevision" ->
            [w EXCEPT !.tree = w.tree \cup clusters]
      [] ev[1] = "commit" -> [w EXCEPT !.local = w.local \cup Into(w.head, w.tree)]
      [] ev[1] = "push" ->
            [w EXCEPT !.remote = w.remote \cup Into(ev[3], Content(w.local, ev[3]))]
      [] ev[1] = "MergePullRequest" ->
            [w EXCEPT !.remote = w.remote \cup Into(dest, Content(w.remote, feature))]
      [] OTHER -> w

\* The workspaces after the calls of evs, in order, have succeeded; the
\* workspaces after the first call are a value before the rest is applied.
RECURSIVE ApplyAll(_, _, _, _, _)
ApplyAll(g, evs, clusters, feature, dest) ==
    IF evs = <<>> THEN g
    ELSE LET ev == Head(evs)
             ws == IF ev[2] \in DOMAIN g THEN ev[2] ELSE "src"
         IN  CHOOSE after \in {ApplyAll(next, Tail(evs), clusters, feature, dest) :
                               next \in {[g EXCEPT ![ws] = ApplyGit(g[ws], ev, clusters,
                                                                    feature, dest)]}} : TRUE

\* The calls of ops that have succeeded when the call at position f fails.
Succeeded(ops, f) == IF f = 0 THEN ops ELSE SubSeq(ops, 1, f - 1)

\* ------------------------------------------------------------------- Init

\* A context that is not cancelled.
Background == [cancelled |-> FALSE]

\* The locals of deploy and process, and the world, before process runs.
DeployVarsInit ==
    /\ gitSourceRepo = Nil
    /\ gitOutputRepo = Nil
    /\ clustersToUpdate = <<>>
    /\ batchSize = 0
    /\ numBatches = 0
    /\ batchCounter = 0
    /\ i = 0
    /\ batch = <<>>
    /\ featureBranchName = ""
    /\ err = NoErr
    /\ res = Nil
    /\ setupLog = <<>>
    /\ batchLog = <<>>
    /\ batches = <<>>
    /\ states = <<"Init">>
    /\ pushed = {}
    /\ pullRequests = {}
    /\ artifacts = <<>>
    /\ uploads = <<>>
    /\ ret = NotReturned
    /\ ctx = Background
    /\ git = [ws \in {"src", "out"} |-> Cloned]

\* No helper function is under study.
NoInput == [op |-> "none"]
NoFile == [exists |-> FALSE, content |-> <<>>]

FnVarsIdle ==
    /\ fnIn = NoInput
    /\ fnFile = NoFile
    /\ fnHist = <<>>

Init ==
    /\ pc = "process"
    /\ params \in [gitSourceRepo : {SrcRef, BadRef},
                   gitOutputRepo : {SrcRef, OutRef, BadRef},
                   gitSourceBranch : {"main"},
                   gitOutputBranch : {"main"},
                   hydrationBatchSize : BatchSizes,
                   enablePullRequestMerge : BOOLEAN]
    /\ DeployVarsInit
    /\ FnVarsIdle

\* ------------------------------------------------- deploy: before the loop

\* deploy.go 90-96: d.accessSecretVersion(ctx, d.params.gitSecret); the client
\* returns the context's error when ctx is cancelled before the call.
AccessSecret ==
    /\ pc = "process"
    /\ setupLog' = Append(setupLog, Ev("accessSecretVersion", "secret", ""))
    /\ \/ /\ ~ctx.cancelled
          /\ pc' = "SecretFetched"
          /\ states' = Append(states, "SecretFetched")
          /\ UNCHANGED err
       \/ /\ Fail("unable to access git secret", "accessSecretVersion")
          /\ UNCHANGED states
    /\ UNCHANGED <<fnVars, ctx, git, params, gitSourceRepo, gitOutputRepo, clustersToUpdate, loopVars, res,
                   batchLog, batches, remoteVars, processVars>>

\* setupGitWorkspace's calls on gitRepo for branch; exists is the answer of
\* checkIfExists (output != nil).
setupGitWorkspaceOps(repoName, branch, exists) ==
    <<Ev("cloneRepo", repoName, ""), Ev("config", repoName, ""),
      Ev("checkoutBranch", repoName, branch),
      Answered(Ev("checkIfExists", repoName, branch), exists)>>
    \o (IF exists THEN <<Ev("pull", repoName, branch)>> ELSE <<>>)

\* deploy.go 98-106: split the source reference, clone and check out.
SetupSourceWorkspace ==
    /\ pc = "SecretFetched"
    /\ LET sourceRepoParts == Split(params.gitSourceRepo)
       IN  IF Len(sourceRepoParts) # 3
           THEN /\ Fail("invalid git repository reference", "gitSourceRepo")
                /\ UNCHANGED <<gitSourceRepo, setupLog, states, git>>
           ELSE LET repo == newGitRepository(sourceRepoParts, 1)
                IN  /\ gitSourceRepo' = repo
                    /\ \E exists \in BOOLEAN :
                         LET ops == setupGitWorkspaceOps(repo.repoName, params.gitSourceBranch, exists)
                         IN  \E f \in 0 .. Len(ops) :
                               /\ setupLog' = setupLog \o Attempted(ops, f)
                               /\ git' = ApplyAll(git, Succeeded(ops, f), {}, "", "")
                               /\ IF f = 0
                                  THEN /\ pc' = "SourceWorkspaceReady"
                                       /\ states' = Append(states, "SourceWorkspaceReady")
                                       /\ UNCHANGED err
                                  ELSE /\ Fail("unable to set up git workspace", ops[f][1])
                                       /\ UNCHANGED states
    /\ UNCHANGED <<fnVars, ctx, params, gitOutputRepo, clustersToUpdate, loopVars, res,
                   batchLog, batches, remoteVars, processVars>>

\* deploy.go 108-125: a distinct output repository is cloned too; otherwise
\* gitOutputRepo is the source's object.
SetupOutputWorkspace ==
    /\ pc = "SourceWorkspaceReady"
    /\ IF params.gitSourceRepo # params.gitOutputRepo
       THEN LET outputRepoParts == Split(params.gitOutputRepo)
            IN  IF Len(outputRepoParts) # 3
                THEN /\ Fail("invalid git repository reference", "gitOutputRepo")
                     /\ UNCHANGED <<gitOutputRepo, setupLog, states, git>>
                ELSE LET repo == newGitRepository(outputRepoParts, 2)
                     IN  /\ gitOutputRepo' = repo
                         /\ \E exists \in BOOLEAN :
                              LET ops == setupGitWorkspaceOps(repo.repoName, params.gitOutputBranch, exists)
                              IN  \E f \in 0 .. Len(ops) :
                                    /\ setupLog' = setupLog \o Attempted(ops, f)
                                    /\ git' = ApplyAll(git, Succeeded(ops, f), {}, "", "")
                                    /\ IF f = 0
                                       THEN /\ pc' = "OutputWorkspaceReady"
                                            /\ states' = Append(states, "OutputWorkspaceReady")
                                            /\ UNCHANGED err
                                       ELSE /\ Fail("unable to set up git workspace", ops[f][1])
                                            /\ UNCHANGED states
       ELSE /\ gitOutputRepo' = gitSourceRepo
            /\ pc' = "OutputWorkspaceReady"
            /\ UNCHANGED <<err, setupLog, states, git>>
    /\ UNCHANGED <<fnVars, ctx, params, gitSourceRepo, clustersToUpdate, loopVars, res,
                   batchLog, batches, remoteVars, processVars>>

\* What determineClustersToUpdate can return: the names of the selected rows,
\* in row order.
Selections == {[n \in 1 .. len |-> ClusterName(n)] : len \in 0 .. MaxClusters}

\* int(NaN) is implementation-specific in Go: zero on some targets, the most
\* negative integer on others.
IntOfNaN == {0, 0 - 2147483647}

\* deploy.go 138-143
EffectiveBatchSize(n) ==
    IF params.hydrationBatchSize > 0 THEN params.hydrationBatchSize ELSE n

\* deploy.go 144: int(math.Ceil(float64(n) / float64(bs))); bs = 0 happens
\* only with n = 0, and 0/0 is NaN.
NumBatchesOf(n, bs) ==
    IF bs = 0 THEN IntOfNaN
    ELSE LET q == n \div bs
         IN  {IF q * bs = n THEN q ELSE q + 1}

\* deploy.go 127-145: determineClustersToUpdate, then the batch arithmetic.
\* The selection fails on an unreadable or malformed inventory, and indexes
\* records[0] of an inventory without any record (a run-time panic).
DetermineClusters ==
    /\ pc = "OutputWorkspaceReady"
    /\ setupLog' = Append(setupLog, Ev("determineClustersToUpdate", gitSourceRepo.repoName, ""))
    /\ \/ /\ Fail("Unable to determine clusters to be updated", "determineClustersToUpdate")
          /\ UNCHANGED <<clustersToUpdate, loopVars, states>>
       \/ /\ pc' = "panicked"
          /\ UNCHANGED <<err, clustersToUpdate, loopVars, states>>
       \/ \E sel \in Selections :
            /\ clustersToUpdate' = sel
            /\ batchSize' = EffectiveBatchSize(Len(sel))
            /\ numBatches' \in NumBatchesOf(Len(sel), batchSize')
            /\ batchCounter' = 1
            /\ i' = 0
            /\ pc' = "BatchLoop"
            /\ states' = Append(states, "ClustersSelected")
            /\ UNCHANGED <<err, batch, featureBranchName>>
    /\ UNCHANGED <<fnVars, ctx, git, params, gitSourceRepo, gitOutputRepo, res,
                   batchLog, batches, remoteVars, processVars>>

\* ------------------------------------------------------ deploy: the loop

BatchEndFromZero(n) ==
    LET end == params.hydrationBatchSize
    IN  IF end > n THEN n ELSE end

\* deploy.go 148-151: the end of the slice, from the configured batch size.
BatchEnd(n) ==
    LET end == i + params.hydrationBatchSize
    IN  IF end > n THEN n ELSE end

\* clustersToUpdate[lo:hi] for 0 <= lo <= hi <= len
Slice(s, lo, hi) == SubSeq(s, lo + 1, hi)

LoopDoneAfterFirst == i > 0 \/ ~(i < Len(clustersToUpdate))

LoopDoneInclusive == ~(i <= Len(clustersToUpdate))

\* deploy.go 147: the loop test i < len(clustersToUpdate) is false
LoopDone == ~(i < Len(clustersToUpdate))

\* deploy.go 147-154: the loop test, the slice and the branch name.  A slice
\* expression with end < i is a run-time panic.
NextBatch ==
    /\ pc = "BatchLoop"
    /\ ~LoopDone
    /\ LET end == BatchEnd(Len(clustersToUpdate))
       IN  IF end < i
           THEN /\ pc' = "panicked"
                /\ UNCHANGED <<batch, featureBranchName, batchLog, batches, states>>
           ELSE /\ batch' = Slice(clustersToUpdate, i, end)
                /\ featureBranchName' = FeatureBranch(batchCounter, numBatches)
                /\ batches' = Append(batches, batch')
                /\ batchLog' = <<>>
                /\ states' = Append(states, "PerBatch")
                /\ pc' = "ResetSource"
    /\ UNCHANGED <<fnVars, ctx, git, params, gitSourceRepo, gitOutputRepo, clustersToUpdate, batchSize,
                   numBatches, batchCounter, i, err, res, setupLog, remoteVars,
                   processVars>>

\* What a per-batch step leaves alone besides pc, err and batchLog.
stepFrame == <<fnVars, ctx, params, gitSourceRepo, gitOutputRepo, clustersToUpdate, loopVars, res,
               setupLog, batches, states, processVars>>

RunOpsNoReturn(ops, f, nextPc, msg) ==
    /\ batchLog' = batchLog \o Attempted(ops, f)
    /\ git' = ApplyAll(git, Succeeded(ops, f), Range(batch), featureBranchName,
                       params.gitOutputBranch)
    /\ pc' = nextPc
    /\ err' = IF f = 0 THEN err ELSE <<msg, ops[f][1]>>

\* The calls of ops up to a failing one (f), and where deploy goes next.
RunOps(ops, f, nextPc, msg) ==
    /\ batchLog' = batchLog \o Attempted(ops, f)
    /\ git' = ApplyAll(git, Succeeded(ops, f), Range(batch), featureBranchName,
                       params.gitOutputBranch)
    /\ IF f = 0
       THEN /\ pc' = nextPc
            /\ UNCHANGED err
       ELSE Fail(msg, ops[f][1])

\* A reset that pulls both branches whatever checkIfExists answers.
resetGitWorkspaceOpsAlwaysPull(repoName, sourceBranch, featureBranch, e1, e2) ==
    <<Ev("config", repoName, ""),
      Ev("checkoutBranch", repoName, sourceBranch),
      Answered(Ev("checkIfExists", repoName, sourceBranch), e1),
      Ev("pull", repoName, sourceBranch),
      Ev("checkoutBranch", repoName, featureBranch),
      Answered(Ev("checkIfExists", repoName, featureBranch), e2),
      Ev("pull", repoName, featureBranch)>>

\* resetGitWorkspace's calls (deploy.go 282-318); e1 and e2 are the answers of
\* checkIfExists for the source branch and for the feature branch.
resetGitWorkspaceOps(repoName, sourceBranch, featureBranch, e1, e2) ==
    <<Ev("config", repoName, ""),
      Ev("checkoutBranch", repoName, sourceBranch),
      Answered(Ev("checkIfExists", repoName, sourceBranch), e1)>>
    \o (IF e1 THEN <<Ev("pull", repoName, sourceBranch)>> ELSE <<>>)
    \o <<Ev("checkoutBranch", repoName, featureBranch),
          Answered(Ev("checkIfExists", repoName, featureBranch), e2)>>
    \o (IF e2 THEN <<Ev("pull", repoName, featureBranch)>> ELSE <<>>)

ResetsOutputNever == FALSE

\* deploy.go 160: is the output workspace reset too?
ResetsOutput == params.gitSourceRepo # params.gitOutputRepo

\* deploy.go 156-158
ResetSource ==
    /\ pc = "ResetSource"
    /\ \E e1 \in BOOLEAN, e2 \in BOOLEAN :
         LET ops == resetGitWorkspaceOps(gitSourceRepo.repoName, params.gitSourceBranch,
                                         featureBranchName, e1, e2)
         IN  \E f \in 0 .. Len(ops) :
               RunOps(ops, f, IF ResetsOutput THEN "ResetOutput" ELSE "UpdateRevisions",
                      "unable to reset git workspace")
    /\ UNCHANGED <<stepFrame, remoteVars>>

\* deploy.go 160-164
ResetOutput ==
    /\ pc = "ResetOutput"
    /\ \E e1 \in BOOLEAN, e2 \in BOOLEAN :
         LET ops == resetGitWorkspaceOps(gitOutputRepo.repoName, params.gitOutputBranch,
                                         featureBranchName, e1, e2)
         IN  \E f \in 0 .. Len(ops) :
               RunOps(ops, f, "UpdateRevisions", "unable to reset git workspace")
    /\ UNCHANGED <<stepFrame, remoteVars>>

\* deploy.go 166-168: updatePlatformAndWorkloadRepositoryRevision on the
\* batch; it indexes records[0], a panic on an inventory without records.
UpdateRevisions ==
    /\ pc = "UpdateRevisions"
    /\ LET ops == <<Ev("updatePlatformAndWorkloadRepositoryRevision", gitSourceRepo.repoName, "")>>
       IN  \/ \E f \in 0 .. 1 : RunOps(ops, f, "Hydrate", "unable to update platform revision")
           \/ /\ batchLog' = batchLog \o ops
              /\ pc' = "panicked"
              /\ UNCHANGED <<err, git>>
    /\ UNCHANGED <<stepFrame, remoteVars>>

\* runHydrationCLI's renderer runs (deploy.go 577-585): the same command, twice.
rendererOps(sourceRepo) ==
    <<Ev("hydrate", sourceRepo \o "/output", ""), Ev("hydrate", sourceRepo \o "/output", "")>>

\* deploy.go 170-172 and 569-588: cleanHydratedDirectory on the output
\* repository's directory, its error dropped, then the renderer.
Hydrate ==
    /\ pc = "Hydrate"
    /\ \E cleaned \in {"ok", "error"} :
         LET ops == <<Ev("cleanHydratedDirectory", gitOutputRepo.repoName \o "/output", cleaned)>>
                    \o rendererOps(gitSourceRepo.repoName)
         IN  \E f \in {0} \cup (2 .. Len(ops)) :
               RunOps(ops, f, "DetectDiffSource", "unable to hydrate")
    /\ UNCHANGED <<stepFrame, remoteVars>>

NoDiffIgnored(op) == FALSE

\* deploy.go 179 and 198: len(op) == 0
NoDiff(op) == op = ""

\* The outputs of git status detectDiff can hand back.
DiffOutputs == {"", " M changed"}

\* deploy.go 174-181 (and 193-200 for the output workspace)
DetectDiff(repo, nextPc) ==
    \/ /\ batchLog' = Append(batchLog, Ev("detectDiff", repo.repoName, "error"))
       /\ Fail("unable to run git status", "detectDiff")
    \/ \E op \in DiffOutputs :
         /\ batchLog' = Append(batchLog, Ev("detectDiff", repo.repoName, op))
         /\ IF NoDiff(op)
            THEN Fail("no diff detected between the rendered manifest and the manifest on branch",
                      featureBranchName)
            ELSE /\ pc' = nextPc
                 /\ UNCHANGED err

DetectDiffSource ==
    /\ pc = "DetectDiffSource"
    /\ DetectDiff(gitSourceRepo, "CommitPushSource")
    /\ UNCHANGED <<stepFrame, remoteVars, git>>

\* commitPushGitWorkspace's calls (deploy.go 321-336)
commitPushGitWorkspaceOps(repoName, featureBranch) ==
    <<Ev("add", repoName, ""), Ev("commit", repoName, ""), Ev("push", repoName, featureBranch)>>

\* deploy.go 183-186 (and 202-205)
CommitPush(repo, nextPc) ==
    LET ops == commitPushGitWorkspaceOps(repo.repoName, featureBranchName)
    IN  \E f \in 0 .. Len(ops) :
          /\ RunOps(ops, f, nextPc, "unable to commit and push changes")
          /\ pushed' = IF f = 0 THEN pushed \cup {<<repo.repoName, featureBranchName>>}
                       ELSE pushed
          /\ UNCHANGED pullRequests

CommitPushSource ==
    /\ pc = "CommitPushSource"
    /\ CommitPush(gitSourceRepo, "HandleDestSource")
    /\ UNCHANGED stepFrame

\* handleDestinationBranch's calls (deploy.go 340-382)
handleDestinationBranchOpsAlways(repoName, featureBranch, destinationBranch) ==
    <<Ev("CreateProvider", repoName, ""),
      Ev("OpenPullRequest", repoName, featureBranch \o " -> " \o destinationBranch)>>

handleDestinationBranchOps(repoName, featureBranch, destinationBranch) ==
    IF destinationBranch = "" THEN <<>>
    ELSE <<Ev("CreateProvider", repoName, ""),
           Ev("OpenPullRequest", repoName, featureBranch \o " -> " \o destinationBranch)>>
         \o (IF params.enablePullRequestMerge
             THEN <<Ev("MergePullRequest", repoName, featureBranch \o " -> " \o destinationBranch)>>
             ELSE <<>>)

\* handleDestinationBranch's error for a failed call (deploy.go 364, 369, 378)
handleDestinationBranchError(op) ==
    CASE op = "CreateProvider" -> "unable to create git provider"
      [] op = "OpenPullRequest" -> "unable to open pull request"
      [] op = "MergePullRequest" -> "unable to merge pull request"

PullRequestDestinationIsSource == params.gitSourceBranch

\* deploy.go 188 and 207: the destinationBranch argument of both calls
PullRequestDestination == params.gitOutputBranch

\* deploy.go 188-190 (and 207-209): the destination is the output branch;
\* handleDestinationBranch's error is returned as it is.
HandleDest(repo, nextPc) ==
    LET dest == PullRequestDestination
        ops == handleDestinationBranchOps(repo.repoName, featureBranchName, dest)
    IN  \E f \in 0 .. Len(ops) :
          /\ RunOps(ops, f, nextPc,
                    IF f = 0 THEN "" ELSE handleDestinationBranchError(ops[f][1]))
          /\ pullRequests' =
                IF Len(ops) >= 2 /\ (f = 0 \/ f > 2)
                THEN pullRequests \cup
                       {[repo |-> repo.repoName, from |-> featureBranchName, to |-> dest,
                         merged |-> (f = 0 /\ params.enablePullRequestMerge)]}
                ELSE pullRequests
          /\ UNCHANGED pushed

HasDistinctOutputAlways == TRUE

\* deploy.go 192: the output workspace is another object than the source's.
HasDistinctOutput == gitSourceRepo # gitOutputRepo

HandleDestSource ==
    /\ pc = "HandleDestSource"
    /\ HandleDest(gitSourceRepo, IF HasDistinctOutput THEN "DetectDiffOutput" ELSE "Wait")
    /\ UNCHANGED stepFrame

DetectDiffOutput ==
    /\ pc = "DetectDiffOutput"
    /\ DetectDiff(gitOutputRepo, "CommitPushOutput")
    /\ UNCHANGED <<stepFrame, remoteVars, git>>

CommitPushOutput ==
    /\ pc = "CommitPushOutput"
    /\ CommitPush(gitOutputRepo, "HandleDestOutput")
    /\ UNCHANGED stepFrame

HandleDestOutput ==
    /\ pc = "HandleDestOutput"
    /\ HandleDest(gitOutputRepo, "Wait")
    /\ UNCHANGED stepFrame

\* deploy.go 212-214 and the loop's i += batchSize
Wait ==
    /\ pc = "Wait"
    /\ batchCounter' = batchCounter + 1
    /\ batchLog' = Append(batchLog, Ev("Sleep", "", "hydrationWaitTimeBetweenBatches"))
    /\ i' = i + batchSize
    /\ pc' = "BatchLoop"
    /\ UNCHANGED <<fnVars, ctx, git, params, gitSourceRepo, gitOutputRepo, clustersToUpdate, batchSize,
                   numBatches, batch, featureBranchName, err, res, setupLog, batches,
                   states, remoteVars, processVars>>

\* ------------------------------------------- deploy: after the loop

\* clouddeploy metadata of every result (deploy.go 56-59 and 231-234)
Metadata == [source |-> "gitDeployerSampleName", sha |-> "GitCommit"]

\* deploy.go 216-235: the loop is over; upload the inventory, build the result.
UploadArtifact ==
    /\ pc = "BatchLoop"
    /\ LoopDone
    /\ LET localPath == gitSourceRepo.repoName \o "/source_of_truth.csv"
       IN  /\ artifacts' = Append(artifacts, localPath)
           /\ \/ /\ res' = [ResultStatus |-> "SUCCEEDED",
                            ArtifactFiles |-> <<"gs://" \o localPath>>,
                            FailureMessage |-> NoErr,
                            Metadata |-> Metadata]
                 /\ states' = states \o <<"ArtifactUploaded", "Succeeded">>
                 /\ pc' = "DeployReturned"
                 /\ UNCHANGED err
              \/ /\ Fail("error uploading deploy artifact", "UploadArtifact")
                 /\ UNCHANGED <<res, states>>
    /\ UNCHANGED <<fnVars, ctx, git, params, gitSourceRepo, gitOutputRepo, clustersToUpdate, loopVars,
                   setupLog, batchLog, batches, remoteVars, uploads, ret>>

\* ---------------------------------------------------------------- process

\* A failed result that leaves the error's text out.
FailedResultNoMessage(e) ==
    [ResultStatus |-> "FAILED", ArtifactFiles |-> <<>>, FailureMessage |-> NoErr,
     Metadata |-> Metadata]

\* deploy.go 53-60: the result process builds for a failed deploy
FailedResult(e) ==
    [ResultStatus |-> "FAILED", ArtifactFiles |-> <<>>, FailureMessage |-> e,
     Metadata |-> Metadata]

\* deploy.go 62-67: UploadResult's error is declared anew inside the if
\* block; it is the one wrapped on line 64 and the one returned on line 67.
ReturnAfterFailedDeploy(uploadErr) ==
    IF uploadErr # NoErr
    THEN <<"error uploading failed deploy results">> \o uploadErr
    ELSE uploadErr

\* deploy.go 71-76
ReturnAfterDeploy(uploadErr) ==
    IF uploadErr # NoErr
    THEN <<"error uploading deploy results">> \o uploadErr
    ELSE NoErr

\* The errors UploadResult can return (NoErr: the upload succeeded).
UploadErrors == {NoErr, <<"gcs: upload failed">>}

\* deploy.go 47-77: process after deploy has returned
ProcessUpload ==
    /\ pc = "DeployReturned"
    /\ \E uploadErr \in UploadErrors :
         IF err # NoErr
         THEN /\ uploads' = Append(uploads, FailedResult(err))
              /\ ret' = ReturnAfterFailedDeploy(uploadErr)
         ELSE /\ uploads' = Append(uploads, res)
              /\ ret' = ReturnAfterDeploy(uploadErr)
    /\ pc' = "done"
    /\ UNCHANGED <<fnVars, ctx, git, params, gitSourceRepo, gitOutputRepo, clustersToUpdate, loopVars, err,
                   res, setupLog, batchLog, batches, states, remoteVars, artifacts>>

Next ==
    \/ AccessSecret
    \/ SetupSourceWorkspace
    \/ SetupOutputWorkspace
    \/ DetermineClusters
    \/ NextBatch
    \/ ResetSource
    \/ ResetOutput
    \/ UpdateRevisions
    \/ Hydrate
    \/ DetectDiffSource
    \/ CommitPushSource
    \/ HandleDestSource
    \/ DetectDiffOutput
    \/ CommitPushOutput
    \/ HandleDestOutput
    \/ Wait
    \/ UploadArtifact
    \/ ProcessUpload

Spec == Init /\ [][Next]_vars

\* process is one sequential program that runs until it returns or panics:
\* whenever a step is possible, one is taken.
SpecFair == Init /\ [][Next]_vars /\ WF_vars(Next)

\* A deployer built without determineParams, as handleDestinationBranch
\* allows for (deploy.go 341-344): the destination branch may be empty.
InitAnyDestination ==
    /\ pc = "process"
    /\ params \in [gitSourceRepo : {SrcRef},
                   gitOutputRepo : {SrcRef, OutRef},
                   gitSourceBranch : {"main"},
                   gitOutputBranch : {"", "main"},
                   hydrationBatchSize : 1 .. MaxBatchSize,
                   enablePullRequestMerge : BOOLEAN]
    /\ DeployVarsInit
    /\ FnVarsIdle

SpecAnyDestination == InitAnyDestination /\ [][Next]_vars

\* deploy with a source branch that is, or is not, the output branch; both are
\* required by determineParams (params.go 152-161) and so not empty.
InitAnyBranches ==
    /\ pc = "process"
    /\ params \in [gitSourceRepo : {SrcRef},
                   gitOutputRepo : {SrcRef, OutRef},
                   gitSourceBranch : {"main", "release"},
                   gitOutputBranch : {"main", "release"},
                   hydrationBatchSize : {MaxBatchSize},
                   enablePullRequestMerge : BOOLEAN]
    /\ DeployVarsInit
    /\ FnVarsIdle

SpecAnyBranches == InitAnyBranches /\ [][Next]_vars

\* ----------------------------------------------------------- cancellation

\* The caller of process cancels ctx while process runs.  The context keeps,
\* as history, how far the logs had got when it was cancelled.
Cancel ==
    /\ pc \notin {"done", "panicked", "functions"}
    /\ ~ctx.cancelled
    /\ ctx' = [cancelled |-> TRUE, setupLog |-> Len(setupLog),
               batches |-> Len(batches), batchLog |-> Len(batchLog)]
    /\ UNCHANGED <<pc, deployFrame, fnVars>>

\* process with a caller that may cancel, for well-formed references and the
\* largest batch size.
InitCancel ==
    /\ pc = "process"
    /\ params \in [gitSourceRepo : {SrcRef},
                   gitOutputRepo : {SrcRef, OutRef},
                   gitSourceBranch : {"main"},
                   gitOutputBranch : {"main"},
                   hydrationBatchSize : {MaxBatchSize},
                   enablePullRequestMerge : {TRUE}]
    /\ DeployVarsInit
    /\ FnVarsIdle

NextCancel ==
    \/ Next
    \/ Cancel

SpecCancel == InitCancel /\ [][NextCancel]_vars

\* =================================================== the helper functions

\* ------------------------------------------------------------ bounds

MaxRows == 2
MaxCalls == 2

\* ------------------------------------------------------------ strings

\* A string of the inventory is held as the sequence of its pieces: a piece
\* is one of the characters below or a run of other characters.
Comma == ","
Quote == "\""
Space == " "

\* The string s as a sequence of pieces, for s without the characters above.
Str(s) == IF s = "" THEN <<>> ELSE <<s>>

\* slices.Contains(s, x)
Contains(s, x) == \E j \in 1 .. Len(s) : s[j] = x

RECURSIVE TrimLeft(_)
TrimLeft(s) == IF s # <<>> /\ Head(s) \in {Quote, Space} THEN TrimLeft(Tail(s)) ELSE s

RECURSIVE TrimRight(_)
TrimRight(s) ==
    IF s # <<>> /\ s[Len(s)] \in {Quote, Space}
    THEN TrimRight(SubSeq(s, 1, Len(s) - 1))
    ELSE s

\* strings.Trim(s, "\" "): s without its leading and trailing quotes and spaces
Trim(s) == TrimRight(TrimLeft(s))

\* strings.Split(s, sep): the substrings between the separators, one more
\* than there are separators (the empty string gives one empty substring).
RECURSIVE SplitOn(_, _)
SplitOn(s, sep) ==
    IF ~Contains(s, sep)
    THEN <<s>>
    ELSE LET k == CHOOSE j \in 1 .. Len(s) : s[j] = sep /\ \A h \in 1 .. (j - 1) : s[h] # sep
         IN  <<SubSeq(s, 1, k - 1)>> \o SplitOn(SubSeq(s, k + 1, Len(s)), sep)

\* ---------------------------------------------------------------- csv

\* A file of comma-separated values is the sequence of its lines; a line is
\* the sequence of its fields, each written between quotes (q) or bare; a
\* line without any field is a blank line.
Cell(q, text) == [q |-> q, text |-> text]

\* A file that exists, with its lines (NoFile: a path without a file).
CsvFile(lines) == [exists |-> TRUE, content |-> lines]

\* encoding/csv Writer.fieldNeedsQuotes: a field is written between quotes
\* iff it holds a comma or a quote or starts with a space.
fieldNeedsQuotes(text) ==
    /\ text # <<>>
    /\ \/ Contains(text, Comma)
       \/ Contains(text, Quote)
       \/ Head(text) = Space

\* writer.Write(record), for every record of records
WriteAll(records) ==
    [r \in 1 .. Len(records) |->
        [j \in 1 .. Len(records[r]) |-> Cell(fieldNeedsQuotes(records[r][j]), records[r][j])]]

\* csv.NewReader(f).ReadAll(): the fields of the lines that are not blank,
\* without their quotes; an error on a quote in a bare field and on a line
\* that has not as many fields as the first.
ReadAll(file) ==
    LET lines == SelectSeq(file, LAMBDA line : line # <<>>)
        records == [r \in 1 .. Len(lines) |->
                       [j \in 1 .. Len(lines[r]) |-> lines[r][j].text]]
    IN  IF \E r \in 1 .. Len(lines) : \E j \in 1 .. Len(lines[r]) :
               ~lines[r][j].q /\ Contains(lines[r][j].text, Quote)
        THEN [records |-> <<>>, err |-> <<"parse error", "bare \" in non-quoted-field">>]
        ELSE IF \E r \in 1 .. Len(records) : Len(records[r]) # Len(records[1])
        THEN [records |-> <<>>, err |-> <<"parse error", "wrong number of fields">>]
        ELSE [records |-> records, err |-> NoErr]

\* ------------------------------------------------------ findFieldIndices

\* deploy.go 384-390: the error that names the fields the header lacks
FieldsNotFoundError(fields) == <<"fields not found in header", fields>>

\* The (zero-based) index of the last field of the header that is field.
LastIndex(header, field) ==
    (CHOOSE j \in 1 .. Len(header) :
        header[j] = field /\ \A h \in (j + 1) .. Len(header) : header[h] # field) - 1

\* deploy.go 401-407: the (zero-based) index of the first field of the
\* header that is field
FirstIndex(header, field) ==
    (CHOOSE j \in 1 .. Len(header) :
        header[j] = field /\ \A h \in 1 .. (j - 1) : header[h] # field) - 1

\* deploy.go 392-418
findFieldIndices(header, fields) ==
    IF Len(header) = 0
    THEN [indices |-> Nil, err |-> FieldsNotFoundError(fields)]
    ELSE LET missingFields == SelectSeq(fields, LAMBDA field : ~Contains(header, field))
         IN  IF Len(missingFields) > 0
             THEN [indices |-> Nil, err |-> FieldsNotFoundError(missingFields)]
             ELSE [indices |-> [field \in {fields[j] : j \in 1 .. Len(fields)} |->
                                   FirstIndex(header, field)],
                   err |-> NoErr]

\* ---------------------------------------------- determineClustersToUpdate

\* The result of a helper: its value, its error, and whether it stopped in
\* a run-time panic instead of returning.
Returned(value, e) == [value |-> value, err |-> e, panicked |-> FALSE]
Panicked == [value |-> Nil, err |-> NoErr, panicked |-> TRUE]

\* deploy.go 420-427
matchesAnyTags(tags, matchTags) ==
    IF Len(matchTags) = 0
    THEN FALSE
    ELSE \E j \in 1 .. Len(tags) : Contains(matchTags, tags[j])

\* The answer of matchesAnyTags where matchesAllTags is meant.
matchesAllTagsAsAny(tags, matchTags) == matchesAnyTags(tags, matchTags)

\* deploy.go 429-439
matchesAllTags(tags, matchTags) ==
    IF Len(matchTags) = 0
    THEN FALSE
    ELSE \A j \in 1 .. Len(matchTags) : Contains(tags, matchTags[j])

\* A row is taken whatever its group.
rowSelectedAnyGroup(record, fieldIndices, clusterGroup, anyTag, allTags) == TRUE

\* deploy.go 465-484: whether the loop appends the name of the record
rowSelected(record, fieldIndices, clusterGroup, anyTag, allTags) ==
    IF clusterGroup # record[fieldIndices[Str("cluster_group")] + 1]
    THEN FALSE
    ELSE IF Len(anyTag) = 0 /\ Len(allTags) = 0
    THEN TRUE
    ELSE LET clusterTags ==
                 SplitOn(Trim(record[fieldIndices[Str("cluster_tags")] + 1]), Comma)
         IN  IF Len(anyTag) > 0
             THEN matchesAnyTags(clusterTags, anyTag)
             ELSE matchesAllTags(clusterTags, allTags)

\* deploy.go 441-488; records[0] of an inventory without a record is an
\* index out of range.
determineClustersToUpdate(file, clusterGroup, anyTag, allTags) ==
    IF ~file.exists
    THEN Returned(Nil, <<"open", "no such file or directory">>)
    ELSE LET read == ReadAll(file.content)
         IN  IF read.err # NoErr
             THEN Returned(Nil, read.err)
             ELSE IF Len(read.records) = 0
             THEN Panicked
             ELSE LET found == findFieldIndices(read.records[1],
                                   <<Str("cluster_name"), Str("cluster_group"),
                                     Str("cluster_tags")>>)
                  IN  IF found.err # NoErr
                      THEN Returned(Nil, found.err)
                      ELSE LET rows == SelectSeq(Tail(read.records),
                                           LAMBDA record :
                                               rowSelected(record, found.indices,
                                                           clusterGroup, anyTag, allTags))
                           IN  Returned([j \in 1 .. Len(rows) |->
                                            rows[j][found.indices[Str("cluster_name")] + 1]],
                                        NoErr)

\* ---------------------------- updatePlatformAndWorkloadRepositoryRevision

\* The faults of the rewrite: none, os.Create fails, the k-th Write fails
\* (WriteFault: the first one does).
NoFault == 0
CreateFault == 0 - 1
WriteFault == 1

\* A record with both revisions set whatever its name.
updatedRecordAnyName(record, fieldIndices, clusterNames, platformRevision, workloadRevision) ==
    [j \in 1 .. Len(record) |->
        IF j = fieldIndices[Str("platform_repository_revision")] + 1 /\ Len(platformRevision) > 0
        THEN platformRevision
        ELSE IF j = fieldIndices[Str("workload_repository_revision")] + 1
                /\ Len(workloadRevision) > 0
        THEN workloadRevision
        ELSE record[j]]

\* A record whose workload revision is never set.
updatedRecordPlatformOnly(record, fieldIndices, clusterNames, platformRevision, workloadRevision) ==
    IF Contains(clusterNames, record[fieldIndices[Str("cluster_name")] + 1])
       /\ Len(platformRevision) > 0
    THEN [record EXCEPT ![fieldIndices[Str("platform_repository_revision")] + 1] =
                            platformRevision]
    ELSE record

\* deploy.go 522-528: the record as the loop writes it
updatedRecord(record, fieldIndices, clusterNames, platformRevision, workloadRevision) ==
    LET named == Contains(clusterNames, record[fieldIndices[Str("cluster_name")] + 1])
        withPlatform ==
            IF named /\ Len(platformRevision) > 0
            THEN [record EXCEPT ![fieldIndices[Str("platform_repository_revision")] + 1] =
                                    platformRevision]
            ELSE record
    IN  IF named /\ Len(workloadRevision) > 0
        THEN [withPlatform EXCEPT ![fieldIndices[Str("workload_repository_revision")] + 1] =
                                      workloadRevision]
        ELSE withPlatform

\* A return that has emptied the file first.
ReturnedTruncated(file, e) == Returned([exists |-> TRUE, content |-> <<>>], e)

\* deploy.go 493-511: the returns that come before os.Create (513); the file
\* is as it was.
ReturnedBeforeCreate(file, e) == Returned(file, e)

\* deploy.go 490-537; the value of the result is the file after the call.
\* os.Create empties the file before the first record is written.
updatePlatformAndWorkloadRepositoryRevision(file, clusterNames, platformRevision, workloadRevision, fault) ==
    IF ~file.exists
    THEN ReturnedBeforeCreate(file, <<"unable to open input file", "no such file or directory">>)
    ELSE LET read == ReadAll(file.content)
         IN  IF read.err # NoErr
             THEN ReturnedBeforeCreate(file, <<"error reading CSV records">> \o read.err)
             ELSE IF Len(read.records) = 0
             THEN [Panicked EXCEPT !.value = file]
             ELSE LET found == findFieldIndices(read.records[1],
                                   <<Str("cluster_name"), Str("platform_repository_revision"),
                                     Str("workload_repository_revision")>>)
                  IN  IF found.err # NoErr
                      THEN ReturnedBeforeCreate(file, found.err)
                      ELSE IF fault = CreateFault
                      THEN Returned(file, <<"error creating file for writing", "create">>)
                      ELSE LET records ==
                                   [r \in 1 .. Len(read.records) |->
                                       updatedRecord(read.records[r], found.indices,
                                                     clusterNames, platformRevision,
                                                     workloadRevision)]
                           IN  IF fault \in 1 .. Len(records)
                               THEN Returned(CsvFile(WriteAll(SubSeq(records, 1, fault - 1))),
                                             <<"error writing CSV record", "write">>)
                               ELSE Returned(CsvFile(WriteAll(records)), NoErr)

\* ------------------------------------------------- cleanHydratedDirectory

\* A directory is the set of the entries beneath it, each with its path
\* from the directory and its kind.
File(path) == [path |-> path, dir |-> FALSE]
Dir(path) == [path |-> path, dir |-> TRUE]
Directory(entries) == [exists |-> TRUE, content |-> entries]
NoDirectory == [exists |-> FALSE, content |-> {}]

\* The names of the entries, in the order os.ReadDir sorts them.
NameOrder == <<".gitkeep", "a.yaml", "sub">>

\* os.ReadDir(directory): the entries of the directory itself, by name
ReadDir(entries) ==
    LET names == SelectSeq(NameOrder, LAMBDA n : \E e \in entries : e.path = <<n>>)
    IN  [j \in 1 .. Len(names) |-> CHOOSE e \in entries : e.path = <<names[j]>>]

\* The entry and all that is beneath it.
Beneath(entries, e) ==
    {d \in entries : Len(d.path) >= Len(e.path) /\ SubSeq(d.path, 1, Len(e.path)) = e.path}

\* No entry is passed over.
keepsNothing(file) == FALSE

\* deploy.go 547-549: the entry the loop passes over
keeps(file) == file.path[1] = ".gitkeep"

\* deploy.go 546-564: the loop over the entries; the removal numbered fault
\* fails (NoFault: none does).
RECURSIVE removeEntries(_, _, _, _)
removeEntries(entries, files, fault, attempt) ==
    IF files = <<>>
    THEN Returned(Directory(entries), NoErr)
    ELSE LET file == Head(files)
         IN  IF keeps(file)
             THEN removeEntries(entries, Tail(files), fault, attempt)
             ELSE IF fault = attempt
             THEN Returned(Directory(entries), <<"remove", file.path[1]>>)
             ELSE IF file.dir
             THEN removeEntries(entries \ Beneath(entries, file), Tail(files),
                                fault, attempt + 1)
             ELSE removeEntries(entries \ {file}, Tail(files), fault, attempt + 1)

\* deploy.go 540-567; the value of the result is the directory after the call
cleanHydratedDirectory(directory, fault) ==
    IF ~directory.exists
    THEN Returned(directory, <<"open", "no such file or directory">>)
    ELSE removeEntries(directory.content, ReadDir(directory.content), fault, 1)

\* ------------------------------------------------- inputs of the helpers

ColumnNames == <<"cluster_name", "cluster_group", "cluster_tags",
                 "platform_repository_revision", "workload_repository_revision">>

\* The header of an inventory with the columns named, in that order.
Header(names) == [j \in 1 .. Len(names) |-> Str(names[j])]

\* Headers: the columns in the usual order; in another order with a column
\* more; without the group and the tags; without the revisions; with a
\* column twice.
Headers ==
    {Header(ColumnNames),
     Header(<<"workload_repository_revision", "cluster_tags", "region", "cluster_name",
              "platform_repository_revision", "cluster_group">>),
     Header(<<"cluster_name", "platform_repository_revision",
              "workload_repository_revision">>),
     Header(<<"cluster_name", "cluster_group", "cluster_tags">>),
     Header(ColumnNames \o <<"platform_repository_revision">>)}

\* A row of the inventory, by column.
Row(name, group, tags, platform) ==
    [cluster_name |-> Str(name), cluster_group |-> Str(group), cluster_tags |-> tags,
     platform_repository_revision |-> Str(platform),
     workload_repository_revision |-> Str("v0"), region |-> Str("eu")]

\* Rows: two of one name, two groups, tags in a list, alone, between quotes
\* and spaces, and none.
Rows ==
    {Row("cluster1", "groupA", <<"tag1", Comma, "tag2">>, "v0"),
     Row("cluster2", "groupB", <<"tag1">>, "v0"),
     Row("cluster3", "groupA", <<Space, Quote, "tag2", Quote>>, "v0"),
     Row("cluster1", "groupA", <<>>, "v1")}

\* The record of a row under a header.
RecordOf(header, row) == [j \in 1 .. Len(header) |-> row[header[j][1]]]

\* The lines of the records with every field between quotes.
QuoteAll(records) ==
    [r \in 1 .. Len(records) |->
        [j \in 1 .. Len(records[r]) |-> Cell(TRUE, records[r][j])]]

\* The inventories with a header and up to MaxRows rows, in either writing.
RegularInventories ==
    UNION {UNION {{CsvFile(WriteAll(<<header>> \o [j \in 1 .. n |-> RecordOf(header, rows[j])])),
                   CsvFile(QuoteAll(<<header>> \o [j \in 1 .. n |-> RecordOf(header, rows[j])]))}
                  : rows \in [1 .. n -> Rows]}
           : header \in Headers, n \in 0 .. MaxRows}

\* The file without a record; one with a blank line; one with a short line;
\* one with a quote in a bare field.
EmptyInventory == CsvFile(<<>>)

OddInventories ==
    LET header == Header(ColumnNames)
        row == RecordOf(header, Row("cluster1", "groupA", <<"tag1">>, "v0"))
    IN  {EmptyInventory,
         CsvFile(<<WriteAll(<<header>>)[1], <<>>, WriteAll(<<row>>)[1]>>),
         CsvFile(WriteAll(<<header, SubSeq(row, 1, 3)>>)),
         CsvFile(<<WriteAll(<<header>>)[1],
                   [WriteAll(<<row>>)[1] EXCEPT ![3] = Cell(FALSE, <<"tag1", Quote>>)]>>)}

Inventories == RegularInventories \cup OddInventories \cup {NoFile}

ClusterGroups == {Str("groupA"), Str("groupB"), Str("groupC")}
AnyTagLists == {<<>>, <<Str("tag1")>>, <<Str("tag3"), Str("tag2")>>}
AllTagLists == {<<>>, <<Str("tag2"), Str("tag1")>>, <<Str("tag2")>>}

ClusterNameLists ==
    {<<>>, <<Str("cluster1")>>, <<Str("cluster3"), Str("cluster2")>>, <<Str("cluster9")>>,
     <<Str("cluster_name"), Str("cluster1")>>}
PlatformRevisions == {Str(""), Str("v1")}
WorkloadRevisions == {Str(""), Str("v2")}

\* The headers and the requests of findFieldIndices: nil and empty ones,
\* and up to two fields among four, one of them in no header.
RequestedFields == {Str("cluster_name"), Str("cluster_tags"),
                    Str("platform_repository_revision"), Str("zone")}
FieldLists == UNION {[1 .. n -> RequestedFields] : n \in 0 .. 2}

Directories ==
    {Directory(k \cup a \cup s) :
        k \in {{}, {File(<<".gitkeep">>)},
               {Dir(<<".gitkeep">>), File(<<".gitkeep", "c.yaml">>)}},
        a \in {{}, {File(<<"a.yaml">>)}},
        s \in {{}, {Dir(<<"sub">>)},
               {Dir(<<"sub">>), File(<<"sub", "b.yaml">>), File(<<"sub", ".gitkeep">>)}}}
    \cup {NoDirectory}

\* ------------------------------------------------------- determineParams

\* strconv.Atoi on the strings the environment holds here: the decimal
\* writings of the batch sizes parse, anything else (the unset variable's ""
\* included) is a syntax error.
Atoi(s) ==
    IF \E n \in BatchSizes : ToString(n) = s
    THEN [value |-> CHOOSE n \in BatchSizes : ToString(n) = s, err |-> NoErr]
    ELSE [value |-> 0, err |-> <<"strconv.Atoi", "invalid syntax">>]

\* time.ParseDuration: a number with a unit parses, to seconds.
ParseDuration(s) ==
    IF s = "1s" THEN [value |-> 1, err |-> NoErr]
    ELSE [value |-> 0, err |-> <<"time", "invalid duration">>]

\* strconv.ParseBool
ParseBool(s) ==
    CASE s \in {"1", "t", "T", "TRUE", "true", "True"} -> [value |-> TRUE, err |-> NoErr]
      [] s \in {"0", "f", "F", "FALSE", "false", "False"} -> [value |-> FALSE, err |-> NoErr]
      [] OTHER -> [value |-> FALSE, err |-> <<"strconv.ParseBool", "invalid syntax">>]

\* params.go 57: defaultWaitTimeBetweenBatches, in seconds
defaultWaitTimeBetweenBatches == 30

\* fmt.Errorf("parameter %q is required", key)
RequiredError(key) == <<"parameter is required", key>>

\* A variable that is not set in the environment (os.LookupEnv's ok = false);
\* os.Getenv returns "" for it.
Unset == "<unset>"
Getenv(env, key) == IF env[key] = Unset THEN "" ELSE env[key]

\* params.go 131-253: the parameters from the environment, or the first
\* error.  A reference is held as its pieces, so the empty one is <<>>.
determineParams(env) ==
    LET size == Atoi(Getenv(env, "hydrationBatchSize"))
        st == Getenv(env, "hydrationWaitTimeBetweenBatches")
        waitTime == IF st # "" THEN ParseDuration(st)
                    ELSE [value |-> defaultWaitTimeBetweenBatches, err |-> NoErr]
        prm == IF env.gitEnablePullRequestMerge # Unset
               THEN ParseBool(env.gitEnablePullRequestMerge)
               ELSE [value |-> FALSE, err |-> NoErr]
        missing(key) == Len(env[key]) = 0
        missingString(key) == Getenv(env, key) = ""
    IN  CASE missing("gitSourceRepo") -> Returned(Nil, RequiredError("gitSourceRepo"))
          [] missing("gitOutputRepo") -> Returned(Nil, RequiredError("gitOutputRepo"))
          [] missingString("gitSecret") -> Returned(Nil, RequiredError("gitSecret"))
          [] missingString("gitSourceBranch") -> Returned(Nil, RequiredError("gitSourceBranch"))
          [] missingString("gitOutputBranch") -> Returned(Nil, RequiredError("gitOutputBranch"))
          [] missingString("hydrationClusterGroup") ->
                Returned(Nil, RequiredError("hydrationClusterGroup"))
          [] Getenv(env, "platformRevision") = "" /\ Getenv(env, "workloadRevision") = "" ->
                Returned(Nil, <<"at least one of parameter is required",
                                "platform-revision", "workload-revision">>)
          [] size.err # NoErr -> Returned(Nil, RequiredError("hydrationBatchSize"))
          [] waitTime.err # NoErr ->
                Returned(Nil, <<"failed to parse parameter", "hydrationWaitTimeBetweenBatches">>)
          [] prm.err # NoErr ->
                Returned(Nil, <<"failed to parse parameter", "gitEnablePullRequestMerge">>)
          [] OTHER ->
                Returned([gitSourceRepo |-> env.gitSourceRepo,
                          gitOutputRepo |-> env.gitOutputRepo,
                          gitSecret |-> env.gitSecret,
                          gitSourceBranch |-> env.gitSourceBranch,
                          gitOutputBranch |-> Getenv(env, "gitOutputBranch"),
                          hydrationClusterGroup |-> env.hydrationClusterGroup,
                          hydrationPlatformRevision |-> Getenv(env, "platformRevision"),
                          hydrationWorkloadRevision |-> Getenv(env, "workloadRevision"),
                          hydrationBatchSize |-> size.value,
                          hydrationWaitTimeBetweenBatches |-> waitTime.value,
                          enablePullRequestMerge |-> prm.value],
                         NoErr)

\* The environments: every required variable set or not, the batch size a
\* number or not, the wait and the merge flag unset, well formed or not.
Environments ==
    [gitSourceRepo : {<<>>, SrcRef},
     gitOutputRepo : {<<>>, OutRef},
     gitSecret : {Unset, "projects/p/secrets/s/versions/1"},
     gitSourceBranch : {Unset, "main"},
     gitOutputBranch : {Unset, "main"},
     hydrationClusterGroup : {Unset, "groupA"},
     platformRevision : {Unset, "v1"},
     workloadRevision : {Unset, "v2"},
     hydrationBatchSize : {Unset, "2", "-1"},
     hydrationWaitTimeBetweenBatches : {Unset, "1s", "soon"},
     gitEnablePullRequestMerge : {Unset, "true", "yes"}]

\* ------------------------------------------------ the helpers, applied

deployVars == <<pc, ctx, git, params, gitSourceRepo, gitOutputRepo, clustersToUpdate, loopVars,
                err, res, setupLog, batchLog, batches, states, remoteVars, processVars>>

InitFunctions ==
    /\ pc = "functions"
    /\ params = [gitSourceRepo |-> SrcRef, gitOutputRepo |-> SrcRef,
                 gitSourceBranch |-> "main", gitOutputBranch |-> "main",
                 hydrationBatchSize |-> 1, enablePullRequestMerge |-> FALSE]
    /\ DeployVarsInit
    /\ fnHist = <<>>
    /\ \/ /\ fnIn \in [op : {"findFieldIndices"}, header : Headers \cup {<<>>},
                       fields : FieldLists]
          /\ fnFile = NoFile
       \/ /\ fnIn \in [op : {"determineClustersToUpdate"}, clusterGroup : ClusterGroups,
                       anyTag : AnyTagLists, allTags : AllTagLists]
          /\ fnFile \in Inventories
       \/ /\ fnIn \in [op : {"updatePlatformAndWorkloadRepositoryRevision"},
                       clusterNames : ClusterNameLists,
                       platformRevision : PlatformRevisions,
                       workloadRevision : WorkloadRevisions]
          /\ fnFile \in Inventories
       \/ /\ fnIn \in [op : {"cleanHydratedDirectory"}]
          /\ fnFile \in Directories
       \/ /\ fnIn \in [op : {"determineParams"}, env : Environments]
          /\ fnFile = NoFile

\* A call of a helper: the file before it, the fault, the result.
Call(before, fault, result) == [before |-> before, fault |-> fault, result |-> result]

FindFieldIndices ==
    /\ fnIn.op = "findFieldIndices"
    /\ fnHist = <<>>
    /\ fnHist' = <<Call(fnFile, NoFault, findFieldIndices(fnIn.header, fnIn.fields))>>
    /\ UNCHANGED <<deployVars, fnIn, fnFile>>

SelectClusters ==
    /\ fnIn.op = "determineClustersToUpdate"
    /\ fnHist = <<>>
    /\ fnHist' = <<Call(fnFile, NoFault,
                        determineClustersToUpdate(fnFile, fnIn.clusterGroup,
                                                  fnIn.anyTag, fnIn.allTags))>>
    /\ UNCHANGED <<deployVars, fnIn, fnFile>>

UpdateRevisionsOfFile ==
    /\ fnIn.op = "updatePlatformAndWorkloadRepositoryRevision"
    /\ Len(fnHist) < MaxCalls
    /\ \A j \in 1 .. Len(fnHist) :
          ~fnHist[j].result.panicked /\ fnHist[j].result.err = NoErr
    /\ \E fault \in {CreateFault, NoFault, WriteFault} :
         LET result == updatePlatformAndWorkloadRepositoryRevision(
                           fnFile, fnIn.clusterNames, fnIn.platformRevision,
                           fnIn.workloadRevision, fault)
         IN  /\ fnHist' = Append(fnHist, Call(fnFile, fault, result))
             /\ fnFile' = result.value
    /\ UNCHANGED <<deployVars, fnIn>>

CleanDirectory ==
    /\ fnIn.op = "cleanHydratedDirectory"
    /\ Len(fnHist) < MaxCalls
    /\ \A j \in 1 .. Len(fnHist) : fnHist[j].result.err = NoErr
    /\ \E fault \in NoFault .. Cardinality({e \in fnFile.content : Len(e.path) = 1}) :
         LET result == cleanHydratedDirectory(fnFile, fault)
         IN  /\ fnHist' = Append(fnHist, Call(fnFile, fault, result))
             /\ fnFile' = result.value
    /\ UNCHANGED <<deployVars, fnIn>>

\* main's call of determineParams on the environment of the container.
DetermineParams ==
    /\ fnIn.op = "determineParams"
    /\ fnHist = <<>>
    /\ fnHist' = <<Call(fnFile, NoFault, determineParams(fnIn.env))>>
    /\ UNCHANGED <<deployVars, fnIn, fnFile>>

NextFunctions ==
    \/ FindFieldIndices
    \/ SelectClusters
    \/ UpdateRevisionsOfFile
    \/ CleanDirectory
    \/ DetermineParams

SpecFunctions == InitFunctions /\ [][NextFunctions]_vars

\* --------------------------------------------------- helpers of the claims

Min(a, b) == IF a < b THEN a ELSE b

IsPrefix(s, t) == Len(s) <= Len(t) /\ s = SubSeq(t, 1, Len(s))

RECURSIVE Concat(_)
Concat(ss) == IF ss = <<>> THEN <<>> ELSE Head(ss) \o Concat(Tail(ss))

\* The least q with q * b >= n, for b > 0.
CeilDiv(n, b) == CHOOSE q \in 0 .. n : q * b >= n /\ \A r \in 0 .. (q - 1) : r * b < n

Selected == "ClustersSelected" \in Range(states)

DistinctRepos == params.gitSourceRepo # params.gitOutputRepo

\* ------------------------------------------------------------------ claims

\* C1: for a configured batch size B > 0 and N selected clusters, numBatches
\* is ceil(N / B), the k-th batch handed to the per-batch steps is the slice
\* [(k-1)*B, min(k*B, N)) of the selection, the loop goes on while fewer than
\* numBatches batches were processed and ends after exactly numBatches.
C1_PositiveBatchPartition ==
    (Selected /\ params.hydrationBatchSize > 0) =>
        LET N == Len(clustersToUpdate)
            B == params.hydrationBatchSize
        IN  /\ numBatches = CeilDiv(N, B)
            /\ Len(batches) <= numBatches
            /\ \A k \in 1 .. Len(batches) :
                  batches[k] = [j \in 1 .. (Min(k * B, N) - (k - 1) * B) |->
                                  clustersToUpdate[(k - 1) * B + j]]
            /\ (pc = "BatchLoop" /\ LoopDone) => Len(batches) = numBatches
            /\ res # Nil => Len(batches) = numBatches
            /\ ~(pc = "panicked" /\ batchLog = <<>>)

\* C1 witness: three clusters in batches of two, deployed to the end.
C1_Witness ==
    /\ res # Nil
    /\ params.hydrationBatchSize = 2
    /\ batches = << <<ClusterName(1), ClusterName(2)>>, <<ClusterName(3)>> >>

\* C2 (as claimed): for a configured batch size B <= 0 and N > 0 selected
\* clusters, deploy processes exactly one batch, the whole selection.
C2_NonPositiveBatchIsWhole ==
    (Selected /\ params.hydrationBatchSize <= 0 /\ Len(clustersToUpdate) > 0) =>
        /\ Len(batches) <= 1
        /\ \A k \in 1 .. Len(batches) : batches[k] = clustersToUpdate
        /\ res # Nil => Len(batches) = 1

\* C3 (as claimed): every batch handed to the per-batch steps is non-empty,
\* and when all batches completed their concatenation is the selection.
C3_BatchesNonEmptyPartition ==
    /\ \A k \in 1 .. Len(batches) : batches[k] # <<>>
    /\ res # Nil => Concat(batches) = clustersToUpdate


\* The step of the per-batch sequence a collaborator call belongs to.
StepOf(ev) ==
    CASE ev[1] \in {"config", "checkoutBranch", "checkIfExists", "pull"} -> <<"Reset", ev[2]>>
      [] ev[1] = "updatePlatformAndWorkloadRepositoryRevision" -> <<"UpdateRevisions", "">>
      [] ev[1] \in {"cleanHydratedDirectory", "hydrate"} -> <<"Hydrate", "">>
      [] ev[1] = "detectDiff" -> <<"DetectDiff", ev[2]>>
      [] ev[1] \in {"add", "commit", "push"} -> <<"CommitAndPush", ev[2]>>
      [] ev[1] \in {"CreateProvider", "OpenPullRequest", "MergePullRequest"} -> <<"PullRequest", ev[2]>>
      [] ev[1] = "Sleep" -> <<"Wait", "">>

\* The steps of a log, in order, each run of calls of one step counted once.
RECURSIVE StepsOf(_)
StepsOf(log) ==
    IF log = <<>> THEN <<>>
    ELSE LET front == StepsOf(SubSeq(log, 1, Len(log) - 1))
             last == StepOf(log[Len(log)])
         IN  IF front # <<>> /\ front[Len(front)] = last THEN front ELSE Append(front, last)

\* The per-batch sequence of section 4.2, for one or two workspaces.
ExpectedSteps ==
    <<<<"Reset", "src">>>>
    \o (IF DistinctRepos THEN <<<<"Reset", "out">>>> ELSE <<>>)
    \o <<<<"UpdateRevisions", "">>, <<"Hydrate", "">>, <<"DetectDiff", "src">>,
         <<"CommitAndPush", "src">>, <<"PullRequest", "src">>>>
    \o (IF DistinctRepos
        THEN <<<<"DetectDiff", "out">>, <<"CommitAndPush", "out">>, <<"PullRequest", "out">>>>
        ELSE <<>>)
    \o <<<<"Wait", "">>>>

\* The calls of log with an operation of ops on workspace ws, in order.
OpsOn(log, ops, ws) == SelectSeq(log, LAMBDA ev : ev[1] \in ops /\ ev[2] = ws)

\* C4: the steps of a batch happen in the order reset source, (reset output),
\* UpdateRevisions, Hydrate, DetectDiff, stage/commit/push, pull request,
\* (diff, commit/push, pull request on a distinct output), wait; a batch that
\* has ended without an error has taken every one of them, and a next batch
\* starts only after the steps of the one before are all taken.
C4_StepOrder ==
    /\ [](/\ IsPrefix(StepsOf(batchLog), ExpectedSteps)
          /\ \A ws \in {"src", "out"} :
               IsPrefix([j \in 1 .. Len(OpsOn(batchLog, {"add", "commit", "push"}, ws)) |->
                           OpsOn(batchLog, {"add", "commit", "push"}, ws)[j][1]],
                        <<"add", "commit", "push">>)
          /\ (pc = "BatchLoop" /\ batches # <<>>) => StepsOf(batchLog) = ExpectedSteps)
    /\ [][(batches' # batches /\ batches # <<>>) => StepsOf(batchLog) = ExpectedSteps]_vars

\* C4 witness: the second batch on two distinct repositories has ended.
C4_Witness ==
    /\ DistinctRepos
    /\ Len(batches) = 2
    /\ pc = "BatchLoop"
    /\ StepsOf(batchLog) = ExpectedSteps
    /\ Len(ExpectedSteps) = 11

\* The successors of a top-level state in section 4.2.
StateSuccessors(st) ==
    CASE st = "Init" -> {"SecretFetched"}
      [] st = "SecretFetched" -> {"SourceWorkspaceReady"}
      [] st = "SourceWorkspaceReady" ->
            IF DistinctRepos THEN {"OutputWorkspaceReady"} ELSE {"ClustersSelected"}
      [] st = "OutputWorkspaceReady" -> {"ClustersSelected"}
      [] st = "ClustersSelected" -> {"PerBatch", "ArtifactUploaded"}
      [] st = "PerBatch" -> {"PerBatch", "ArtifactUploaded"}
      [] st = "ArtifactUploaded" -> {"Succeeded"}
      [] st = "Succeeded" -> {}

GitOps == {"cloneRepo", "config", "checkoutBranch", "checkIfExists", "pull",
           "add", "commit", "push"}

\* C5: deploy enters the top-level states in the order Init, SecretFetched,
\* SourceWorkspaceReady, (OutputWorkspaceReady), ClustersSelected, PerBatch*,
\* ArtifactUploaded, Succeeded; no git operation is made before the secret
\* was fetched, and the artifact is uploaded only when every batch that was
\* started has ended and the loop has no batch left.
C5_StateOrder ==
    /\ states[1] = "Init"
    /\ \A j \in 1 .. (Len(states) - 1) : states[j + 1] \in StateSuccessors(states[j])
    /\ (\E ev \in Range(setupLog) \cup Range(batchLog) : ev[1] \in GitOps) =>
          /\ "SecretFetched" \in Range(states)
          /\ setupLog[1][1] = "accessSecretVersion"
    /\ artifacts # <<>> =>
          /\ Len(artifacts) = 1
          /\ states[Len(states)] \in {"ClustersSelected", "PerBatch", "ArtifactUploaded", "Succeeded"}
          /\ batches # <<>> => StepsOf(batchLog) = ExpectedSteps
          /\ Len(batches) = batchCounter - 1
          /\ Len(batches) * batchSize >= Len(clustersToUpdate)
    /\ res # Nil => states[Len(states)] = "Succeeded"

\* C5 witness: a successful deploy of two batches on two repositories.
C5_Witness ==
    /\ states = <<"Init", "SecretFetched", "SourceWorkspaceReady", "OutputWorkspaceReady",
                  "ClustersSelected", "PerBatch", "PerBatch", "ArtifactUploaded", "Succeeded">>
    /\ pc = "done"

NoDiffMessage == "no diff detected between the rendered manifest and the manifest on branch"

\* C6: a diff that is empty ends deploy with the "no diff detected" error
\* naming the batch's feature branch, and every add, commit and push in a
\* batch comes after a non-empty diff of the same workspace in that batch,
\* and after no empty one.
C6_EmptyDiffIsError ==
    \A j \in 1 .. Len(batchLog) :
        /\ (batchLog[j][1] = "detectDiff" /\ batchLog[j][3] = "") =>
              /\ j = Len(batchLog)
              /\ err = <<NoDiffMessage, featureBranchName>>
              /\ pc \in {"DeployReturned", "done"}
              /\ \A pr \in pushed : pr[2] = featureBranchName => pr[1] # batchLog[j][2]
        /\ batchLog[j][1] \in {"add", "commit", "push"} =>
              /\ \E h \in 1 .. (j - 1) :
                    /\ batchLog[h][1] = "detectDiff"
                    /\ batchLog[h][2] = batchLog[j][2]
                    /\ batchLog[h][3] \notin {"", "error"}
              /\ \A h \in 1 .. Len(batchLog) :
                    (batchLog[h][1] = "detectDiff" /\ batchLog[h][2] = batchLog[j][2])
                        => batchLog[h][3] \notin {"", "error"}

\* C6 witness: the output workspace of the second batch has no diff.
C6_Witness ==
    /\ pc = "done"
    /\ Len(batches) = 2
    /\ batchLog[Len(batchLog)] = <<"detectDiff", "out", "">>
    /\ err = <<NoDiffMessage, FeatureBranch(2, 2)>>

\* C7: once deploy has an error it makes no further call, starts no batch,
\* keeps the error and returns no result; what was pushed stays pushed, and
\* the uploaded result is a failed one however many batches completed.
C7_FailFast ==
    /\ [][err # NoErr =>
            /\ setupLog' = setupLog
            /\ batchLog' = batchLog
            /\ batches' = batches
            /\ artifacts' = artifacts
            /\ pushed' = pushed
            /\ pullRequests' = pullRequests
            /\ err' = err
            /\ res' = Nil
            /\ pc' = "done"]_vars
    /\ [][pushed \subseteq pushed']_vars
    /\ [](err # NoErr => /\ res = Nil
                         /\ pc \in {"DeployReturned", "done"}
                         /\ pc = "done" => uploads[1].ResultStatus = "FAILED")

\* C7 witness: the second batch fails after the first was pushed.
C7_Witness ==
    /\ pc = "done"
    /\ err # NoErr
    /\ batchCounter = 2
    /\ Len(batches) = 2
    /\ <<"src", FeatureBranch(1, 2)>> \in pushed

Count(log, op, ws) == Len(OpsOn(log, {op}, ws))

Workspaces == IF DistinctRepos THEN {"src", "out"} ELSE {"src"}

\* C8: a batch that has ended has made exactly one commit, one push and one
\* pull-request opening on each distinct workspace and none elsewhere, after
\* one reset of each, with one clone of each before the loop; with two
\* workspaces the source's come before the output's.
C8_ExactlyOncePerWorkspace ==
    (pc \in {"BatchLoop", "DeployReturned", "done"} /\ err = NoErr /\ batches # <<>>) =>
        /\ \A ws \in Workspaces :
              /\ Count(batchLog, "commit", ws) = 1
              /\ Count(batchLog, "push", ws) = 1
              /\ Count(batchLog, "add", ws) = 1
              /\ Count(batchLog, "CreateProvider", ws) = 1
              /\ Count(batchLog, "OpenPullRequest", ws) = 1
              /\ Count(batchLog, "config", ws) = 1
              /\ Count(setupLog, "cloneRepo", ws) = 1
        /\ \A ev \in Range(batchLog) \cup Range(setupLog) :
              ev[1] \in GitOps \cup {"OpenPullRequest"} => ev[2] \in Workspaces
        /\ DistinctRepos =>
              \A j, h \in 1 .. Len(batchLog) :
                  (/\ batchLog[j][1] \in {"commit", "push", "OpenPullRequest"}
                   /\ batchLog[j][2] = "src"
                   /\ batchLog[h][1] \in {"commit", "push", "OpenPullRequest"}
                   /\ batchLog[h][2] = "out") => j < h

\* C8 witness: a successful deploy of two batches on one repository.
C8_Witness ==
    /\ pc = "done"
    /\ res # Nil
    /\ ~DistinctRepos
    /\ Len(batches) = 2

\* C9 (as claimed): every execution of process hands exactly one result to
\* UploadResult, a failed one with the error's text iff deploy returned an
\* error and a succeeded one otherwise.
C9_UploadAlwaysAttempted ==
    pc \in {"done", "panicked"} =>
        /\ Len(uploads) = 1
        /\ err # NoErr => uploads[1] = FailedResult(err)
        /\ err = NoErr => uploads[1].ResultStatus = "SUCCEEDED"

\* C10 (as claimed): when deploy fails and the upload of the failed result
\* fails too, the error process returns carries deploy's error besides the
\* upload's.
C10_UploadFailureKeepsDeployError ==
    (pc = "done" /\ err # NoErr /\ ret # NoErr) => err[1] \in Range(ret)

\* A result is of one of the two shapes of section 3.
WellFormedResult(r) ==
    /\ r.ResultStatus \in {"SUCCEEDED", "FAILED"}
    /\ r.Metadata = [source |-> "gitDeployerSampleName", sha |-> "GitCommit"]
    /\ r.ResultStatus = "SUCCEEDED" =>
          /\ r.ArtifactFiles # <<>>
          /\ artifacts # <<>>
          /\ ("gs://" \o artifacts[Len(artifacts)]) \in Range(r.ArtifactFiles)
          /\ r.FailureMessage = NoErr
          /\ err = NoErr
    /\ r.ResultStatus = "FAILED" =>
          /\ r.FailureMessage # NoErr
          /\ r.FailureMessage = err
          /\ r.ArtifactFiles = <<>>

\* C11: every result built is either a succeeded one, with a non-empty list
\* of artifacts that holds the uploaded inventory and with no failure
\* message, or a failed one, with the error's text and no artifact; both
\* carry the same metadata.
C11_ResultShape ==
    /\ \A j \in 1 .. Len(uploads) : WellFormedResult(uploads[j])
    /\ res # Nil => (WellFormedResult(res) /\ res.ResultStatus = "SUCCEEDED")
    /\ (pc = "done" /\ err # NoErr) => uploads[1].ResultStatus = "FAILED"

\* C11 witness: a failed result was uploaded after a diff was empty.
C11_Witness ==
    /\ pc = "done"
    /\ uploads # <<>>
    /\ uploads[1].ResultStatus = "FAILED"
    /\ uploads[1].FailureMessage = <<NoDiffMessage, FeatureBranch(1, 2)>>
    /\ uploads[1].ArtifactFiles = <<>>

\* C12: the k-th batch processed uses the branch "{rollout}__{k}/{numBatches}"
\* with 1 <= k <= numBatches, numBatches being the number of batches a
\* complete deploy processes; the branches pushed to a repository are those
\* of the batches so far, one per batch, so no two batches share a name.
C12_FeatureBranchNames ==
    /\ batches # <<>> =>
          LET k == Len(batches)
          IN  /\ featureBranchName =
                    Rollout \o "__" \o ToString(k) \o "/" \o ToString(numBatches)
              /\ 1 <= k
              /\ k <= numBatches
              /\ res # Nil => k = numBatches
    /\ \A p \in pushed :
          \E k \in 1 .. Len(batches) :
              p[2] = Rollout \o "__" \o ToString(k) \o "/" \o ToString(numBatches)
    /\ (pc = "BatchLoop" /\ err = NoErr) =>
          \A ws \in Workspaces :
              Cardinality({p \in pushed : p[1] = ws}) = Len(batches)

\* C12 witness: three batches of one cluster each were pushed and deployed.
C12_Witness ==
    /\ res # Nil
    /\ Len(batches) = 3
    /\ featureBranchName = "rollout__3/3"
    /\ {p[2] : p \in pushed} = {"rollout__1/3", "rollout__2/3", "rollout__3/3"}

\* ------------------------------------------ helpers of the helpers' claims

\* The calls made of the helper op.
CallsOf(op) == IF fnIn.op = op THEN Range(fnHist) ELSE {}

\* The records a reader finds in a file.
RecordsOf(file) == ReadAll(file.content).records

\* The file can be read and its first record has the columns named.
HasHeader(file, names) ==
    /\ file.exists
    /\ ReadAll(file.content).err = NoErr
    /\ RecordsOf(file) # <<>>
    /\ \A n \in names : \E j \in 1 .. Len(RecordsOf(file)[1]) : RecordsOf(file)[1][j] = Str(n)

\* The position of the first field of the header with the name.
Col(header, name) ==
    CHOOSE j \in 1 .. Len(header) :
        header[j] = Str(name) /\ \A h \in 1 .. (j - 1) : header[h] # Str(name)

\* The fields at position col of the rows numbered in S, in row order.
FieldsAt(rows, S, col) ==
    LET idx == SelectSeq([j \in 1 .. Len(rows) |-> j], LAMBDA j : j \in S)
    IN  [k \in 1 .. Len(idx) |-> rows[idx[k]][col]]

SelectColumns == {"cluster_name", "cluster_group", "cluster_tags"}
UpdateColumns == {"cluster_name", "platform_repository_revision",
                  "workload_repository_revision"}

\* The rows of the requested group, by number (the header is not a row).
GroupRows(c) ==
    LET records == RecordsOf(c.before)
    IN  {j \in 1 .. (Len(records) - 1) :
            records[j + 1][Col(records[1], "cluster_group")] = fnIn.clusterGroup}

\* C13: on an inventory with the required header determineClustersToUpdate
\* returns, without an error, the names of rows of the requested group only,
\* in the order of the rows and once per row; with both tag lists empty,
\* those of every row of the group; none when the group has no row.
C13_GroupFilterAndOrder ==
    \A c \in CallsOf("determineClustersToUpdate") :
        HasHeader(c.before, SelectColumns) =>
            LET records == RecordsOf(c.before)
                rows == Tail(records)
                name == Col(records[1], "cluster_name")
            IN  /\ ~c.result.panicked
                /\ c.result.err = NoErr
                /\ \E S \in SUBSET GroupRows(c) : c.result.value = FieldsAt(rows, S, name)
                /\ (fnIn.anyTag = <<>> /\ fnIn.allTags = <<>>) =>
                      c.result.value = FieldsAt(rows, GroupRows(c), name)
                /\ GroupRows(c) = {} => c.result.value = <<>>

\* C13 witness: two rows of one name in the group, both returned, under a
\* header in another order.
C13_Witness ==
    \E c \in CallsOf("determineClustersToUpdate") :
        /\ HasHeader(c.before, SelectColumns)
        /\ RecordsOf(c.before)[1][1] = Str("workload_repository_revision")
        /\ fnIn.anyTag = <<>>
        /\ fnIn.allTags = <<>>
        /\ c.result.value = <<Str("cluster1"), Str("cluster1")>>

\* The tags of a row: the pieces between the commas of the cluster_tags
\* field without its leading and trailing quotes and spaces.
TagSet(header, record) == Range(SplitOn(Trim(record[Col(header, "cluster_tags")]), Comma))

\* C14: with a non-empty matchAny a row of the requested group is selected
\* iff one of its tags is in matchAny, whatever matchAll is; with an empty
\* matchAny and a non-empty matchAll it is selected iff every tag of
\* matchAll is one of its tags.
C14_TagPrecedence ==
    \A c \in CallsOf("determineClustersToUpdate") :
        (HasHeader(c.before, SelectColumns) /\ (fnIn.anyTag # <<>> \/ fnIn.allTags # <<>>)) =>
            LET records == RecordsOf(c.before)
                rows == Tail(records)
                expected ==
                    {j \in GroupRows(c) :
                        IF fnIn.anyTag # <<>>
                        THEN TagSet(records[1], rows[j]) \cap Range(fnIn.anyTag) # {}
                        ELSE Range(fnIn.allTags) \subseteq TagSet(records[1], rows[j])}
            IN  c.result.value = FieldsAt(rows, expected, Col(records[1], "cluster_name"))

\* C14 witness: both lists are given; a row with a tag of matchAny and
\* without the tags of matchAll is selected, and a row with the tags of
\* matchAll and none of matchAny is not.
C14_Witness ==
    \E c \in CallsOf("determineClustersToUpdate") :
        /\ fnIn.anyTag = <<Str("tag1")>>
        /\ fnIn.allTags = <<Str("tag2")>>
        /\ fnIn.clusterGroup = Str("groupA")
        /\ HasHeader(c.before, SelectColumns)
        /\ Len(RecordsOf(c.before)) = 3
        /\ RecordsOf(c.before)[2][Col(RecordsOf(c.before)[1], "cluster_tags")]
               = <<"tag1", Comma, "tag2">>
        /\ RecordsOf(c.before)[3][Col(RecordsOf(c.before)[1], "cluster_tags")]
               = <<Space, Quote, "tag2", Quote>>
        /\ c.result.value = <<Str("cluster1")>>

\* C15: for a non-empty header findFieldIndices returns an error iff a
\* requested field is not in the header, and the error names the fields that
\* are not, in the order of the request; without an error every requested
\* field has the index of its first occurrence; for an empty header the
\* error names all the requested fields.
C15_MissingFields ==
    \A c \in CallsOf("findFieldIndices") :
        LET header == fnIn.header
            fields == fnIn.fields
            absent == SelectSeq(fields, LAMBDA f : \A j \in 1 .. Len(header) : header[j] # f)
        IN  /\ header # <<>> =>
                  /\ c.result.err # NoErr <=> absent # <<>>
                  /\ c.result.err # NoErr =>
                        c.result.err = <<"fields not found in header", absent>>
                  /\ c.result.err = NoErr =>
                        \A f \in Range(fields) :
                            LET j == c.result.indices[f] + 1
                            IN  /\ j \in 1 .. Len(header)
                                /\ header[j] = f
                                /\ \A h \in 1 .. (j - 1) : header[h] # f
            /\ header = <<>> => c.result.err = <<"fields not found in header", fields>>

\* C15 witness: two fields are not in the header and are named as requested.
C15_Witness ==
    \E c \in CallsOf("findFieldIndices") :
        /\ fnIn.header = Header(<<"cluster_name", "platform_repository_revision",
                                  "workload_repository_revision">>)
        /\ fnIn.fields = <<Str("zone"), Str("cluster_tags")>>
        /\ c.result.err = <<"fields not found in header", <<Str("zone"), Str("cluster_tags")>>>>

\* C16 (as claimed): on an inventory without any record both helpers return
\* an error, determineClustersToUpdate the one that names the three columns
\* it needs.
C16_EmptyInventoryIsError ==
    /\ \A c \in CallsOf("determineClustersToUpdate") :
          c.before = EmptyInventory =>
              /\ ~c.result.panicked
              /\ c.result.err = <<"fields not found in header",
                                  <<Str("cluster_name"), Str("cluster_group"),
                                    Str("cluster_tags")>>>>
    /\ \A c \in CallsOf("updatePlatformAndWorkloadRepositoryRevision") :
          c.before = EmptyInventory =>
              /\ ~c.result.panicked
              /\ c.result.err # NoErr

\* The calls of updatePlatformAndWorkloadRepositoryRevision that returned
\* without an error.
Updates ==
    {c \in CallsOf("updatePlatformAndWorkloadRepositoryRevision") :
        ~c.result.panicked /\ c.result.err = NoErr}

Cleanups == IF fnIn.op = "cleanHydratedDirectory" THEN 1 .. Len(fnHist) ELSE {}

ProviderOps == {"CreateProvider", "OpenPullRequest", "MergePullRequest"}

\* C20: with an empty destination handleDestinationBranch calls no provider
\* and returns no error; with a destination it opens one pull request per
\* workspace and batch, from the batch's feature branch to the destination,
\* and merges it right after iff merging is enabled; no merge comes without
\* the opening just before it, no opening before the push of the feature
\* branch, and a failed opening or merge ends deploy with an error.
C20_PullRequestHandling ==
    /\ [](LET dest == params.gitOutputBranch
              request == featureBranchName \o " -> " \o dest
          IN  /\ dest = "" =>
                    /\ \A ev \in Range(batchLog) : ev[1] \notin ProviderOps
                    /\ pullRequests = {}
                    /\ err # NoErr => err[2] \notin ProviderOps
              /\ \A j \in 1 .. Len(batchLog) :
                    /\ batchLog[j][1] = "OpenPullRequest" =>
                          /\ batchLog[j][3] = request
                          /\ Count(batchLog, "OpenPullRequest", batchLog[j][2]) = 1
                          /\ \E h \in 1 .. (j - 1) :
                                batchLog[h] = Ev("push", batchLog[j][2], featureBranchName)
                          /\ <<batchLog[j][2], featureBranchName>> \in pushed
                          /\ (params.enablePullRequestMerge /\ j = Len(batchLog)) =>
                                \/ pc \in {"HandleDestSource", "HandleDestOutput"}
                                \/ err = <<"unable to open pull request", "OpenPullRequest">>
                    /\ batchLog[j][1] = "MergePullRequest" =>
                          /\ params.enablePullRequestMerge
                          /\ j > 1
                          /\ batchLog[j - 1] = Ev("OpenPullRequest", batchLog[j][2], request)
                          /\ batchLog[j][3] = request
              /\ (dest # "" /\ pc \in {"Wait", "BatchLoop"} /\ batches # <<>>) =>
                    \A ws \in Workspaces :
                        /\ Count(batchLog, "OpenPullRequest", ws) = 1
                        /\ Count(batchLog, "MergePullRequest", ws) =
                              IF params.enablePullRequestMerge THEN 1 ELSE 0
              /\ \A pr \in pullRequests :
                    /\ pr.to = dest
                    /\ <<pr.repo, pr.from>> \in pushed
                    /\ pr.merged => params.enablePullRequestMerge
              /\ (err # NoErr /\ err[2] \in ProviderOps) =>
                    /\ err[2] = batchLog[Len(batchLog)][1]
                    /\ res = Nil
                    /\ pc \in {"DeployReturned", "done"}
                    /\ pc = "done" => uploads[1].ResultStatus = "FAILED")
    /\ [][(pc \in {"HandleDestSource", "HandleDestOutput"} /\ params.gitOutputBranch = "") =>
             /\ err' = NoErr
             /\ batchLog' = batchLog
             /\ pc' \in {"DetectDiffOutput", "Wait"}]_vars

\* C20 witness: without a destination two batches were pushed to two
\* repositories and deployed, and no pull request was opened.
C20_Witness ==
    /\ params.gitOutputBranch = ""
    /\ DistinctRepos
    /\ res # Nil
    /\ Len(batches) = 2
    /\ Cardinality(pushed) = 4
    /\ pullRequests = {}

\* C21: a deploy can be configured without a destination branch: with every
\* other required parameter set and no destination branch in the environment,
\* the parameters are accepted, with an empty destination (and a deploy with
\* them opens no pull request, as C20 states).
C21_DestinationIsOptional ==
    \A j \in 1 .. Len(fnHist) :
        LET call == fnHist[j]
            env == fnIn.env
        IN  (/\ fnIn.op = "determineParams"
             /\ env.gitOutputBranch = Unset
             /\ determineParams([env EXCEPT !.gitOutputBranch = "main"]).err = NoErr)
            => /\ call.result.err = NoErr
               /\ call.result.value.gitOutputBranch = ""

\* The events logged since ctx was cancelled.
SinceCancel ==
    IF ~ctx.cancelled THEN <<>>
    ELSE SubSeq(setupLog, ctx.setupLog + 1, Len(setupLog))
         \o (IF Len(batches) > ctx.batches THEN batchLog
             ELSE SubSeq(batchLog, ctx.batchLog + 1, Len(batchLog)))

\* The calls that are handed the context (deploy.go 241): they can observe a
\* cancellation themselves.
ContextCalls == {"accessSecretVersion"}

\* C22: once the context is cancelled no further step is started, and a wait
\* that is under way ends before its duration has elapsed: after the
\* cancellation no batch is begun and no call is made that is not handed the
\* context, the full inter-batch sleep included.
C22_CancellationObserved ==
    ctx.cancelled =>
        /\ Len(batches) = ctx.batches
        /\ \A j \in 1 .. Len(SinceCancel) : SinceCancel[j][1] \in ContextCalls

\* C22, the wait alone: no full sleep is logged after the cancellation.
C22_WaitInterrupted ==
    ctx.cancelled => \A j \in 1 .. Len(SinceCancel) : SinceCancel[j][1] # "Sleep"

\* The positions of deploy after a Hydrate step that succeeded.
AfterHydrate == {"DetectDiffSource", "CommitPushSource", "HandleDestSource",
                 "DetectDiffOutput", "CommitPushOutput", "HandleDestOutput", "Wait"}

\* The renderer runs of the current batch.
RendererRuns == {j \in 1 .. Len(batchLog) : batchLog[j][1] = "hydrate"}

\* C23: in every batch whose Hydrate step has succeeded the renderer was
\* invoked exactly once.
C23_OneRendererRun ==
    pc \in AfterHydrate => Cardinality(RendererRuns) = 1

\* The clearings of the output directory that failed, in the current batch.
FailedCleanups ==
    {j \in 1 .. Len(batchLog) :
        batchLog[j][1] = "cleanHydratedDirectory" /\ batchLog[j][3] = "error"}

\* C28: when clearing the output directory fails, the Hydrate step fails with
\* it: the renderer is not invoked and deploy returns the error; and when a
\* renderer run fails, deploy returns the error before any diff or commit of
\* the batch.
C28_HydrateFailsFast ==
    /\ FailedCleanups # {} =>
          /\ \A j \in FailedCleanups : j = Len(batchLog)
          /\ RendererRuns = {}
          /\ pc \in {"DeployReturned", "done"}
          /\ err # NoErr
    /\ (err # NoErr /\ err[1] = "unable to hydrate") =>
          /\ pc \in {"DeployReturned", "done"}
          /\ batchLog[Len(batchLog)][1] \in {"hydrate", "cleanHydratedDirectory"}
          /\ \A j \in 1 .. Len(batchLog) :
                batchLog[j][1] \notin {"detectDiff", "add", "commit", "push"}

\* C28, the renderer alone: a failed renderer run ends the batch before
\* any diff or commit.
C28_RendererFailureEndsBatch ==
    (err # NoErr /\ err[1] = "unable to hydrate") =>
        /\ pc \in {"DeployReturned", "done"}
        /\ batchLog[Len(batchLog)][1] = "hydrate"
        /\ \A j \in 1 .. Len(batchLog) :
              batchLog[j][1] \notin {"detectDiff", "add", "commit", "push"}

\* deploy has returned a successful result that lists the uploaded inventory,
\* after numBatches batches that are the slices of the selection, in order.
SucceededWithAllBatches ==
    /\ pc \in {"DeployReturned", "done"}
    /\ err = NoErr
    /\ res # Nil
    /\ res.ResultStatus = "SUCCEEDED"
    /\ \E j \in 1 .. Len(res.ArtifactFiles) :
          res.ArtifactFiles[j] = "gs://" \o artifacts[Len(artifacts)]
    /\ artifacts = <<gitSourceRepo.repoName \o "/source_of_truth.csv">>
    /\ Len(batches) = numBatches
    /\ Concat(batches) = clustersToUpdate
    /\ \A k \in 1 .. Len(batches) :
          batches[k] = SubSeq(clustersToUpdate, (k - 1) * params.hydrationBatchSize + 1,
                              Min(k * params.hydrationBatchSize, Len(clustersToUpdate)))

\* No call fails, no diff is empty (deploy sets no error and does not panic),
\* and the selection is not empty.
AllSucceed ==
    /\ err = NoErr
    /\ pc # "panicked"
    /\ Selected => clustersToUpdate # <<>>

\* C24: with a batch size B >= 1, when no call ever fails, every diff is
\* non-empty and N >= 1 clusters are selected, deploy eventually has processed
\* all numBatches batches in index order and returned the status succeeded
\* with the uploaded inventory among the artifacts.
C24_SuccessPath ==
    (params.hydrationBatchSize >= 1 /\ []AllSucceed) => <>SucceededWithAllBatches

\* C24 witness: a successful deploy of three clusters in two batches.
C24_Witness ==
    /\ SucceededWithAllBatches
    /\ Len(clustersToUpdate) = 3
    /\ Len(batches) = 2

\* deploy has failed on a repository reference that does not split in three.
InvalidReference == err # NoErr /\ err[1] = "invalid git repository reference"

\* C25: a source or output reference that does not split on "/" into exactly
\* three parts makes deploy fail with the invalid-reference error, and when it
\* does no workspace has been cloned or modified: no git call was made, on
\* the source repository either.
C25_InvalidReferenceBeforeClone ==
    /\ (/\ pc \in {"DeployReturned", "done"}
        /\ "SecretFetched" \in Range(states)
        /\ Len(Split(params.gitSourceRepo)) # 3) => InvalidReference
    /\ (/\ pc \in {"DeployReturned", "done"}
        /\ "SourceWorkspaceReady" \in Range(states)
        /\ params.gitOutputRepo # params.gitSourceRepo
        /\ Len(Split(params.gitOutputRepo)) # 3) => InvalidReference
    /\ InvalidReference =>
          /\ batches = <<>>
          /\ \A j \in 1 .. Len(setupLog) : setupLog[j][1] \notin GitOps
          /\ gitSourceRepo = Nil

\* C25, the source reference alone: it is rejected before any git call.
C25_SourceReferenceBeforeClone ==
    (InvalidReference /\ err[2] = "gitSourceRepo") =>
        /\ setupLog = <<Ev("accessSecretVersion", "secret", "")>>
        /\ batches = <<>>

\* C26: for every selection and every configured batch size, positive, zero
\* or negative, the loop makes finitely many iterations (at most one per
\* selected cluster) and deploy reaches a terminal outcome, success or
\* failure: it returns.
C26_DeployReturns ==
    /\ [](Len(batches) <= Len(clustersToUpdate))
    /\ <>(pc \in {"DeployReturned", "done"})

\* C26, termination alone: the loop makes at most one iteration per selected
\* cluster and process ends, by a return or by a panic; with a batch size of
\* zero or less the loop makes at most one iteration.
C26_LoopEnds ==
    /\ [](Len(batches) <= Len(clustersToUpdate))
    /\ [](params.hydrationBatchSize <= 0 => Len(batches) <= 1)
    /\ <>(pc \in {"done", "panicked"})

\* The checkouts, existence checks and pulls of the current batch on ws.
ResetCalls(ws) == OpsOn(batchLog, {"checkoutBranch", "checkIfExists", "pull"}, ws)

\* Check out branch, ask whether it exists remotely, pull it iff it does.
CheckoutAndPull(ws, branch, exists) ==
    <<<<"checkoutBranch", ws, branch>>, <<"checkIfExists", ws, branch, exists>>>>
    \o (IF exists THEN <<<<"pull", ws, branch>>>> ELSE <<>>)

\* C27: when the resets of a batch are done, each workspace that was reset
\* has seen: checkout of its source branch, the existence check, a pull iff
\* the check was positive, then the same for the feature branch; a pull
\* always follows a positive check of the same branch, never a negative one;
\* and the output workspace was reset iff the output reference differs from
\* the source reference, after the source workspace.
C27_ResetSequence ==
    /\ \A j \in 1 .. Len(batchLog) :
          batchLog[j][1] = "pull" =>
              /\ j > 1
              /\ batchLog[j - 1] = <<"checkIfExists", batchLog[j][2], batchLog[j][3], TRUE>>
    /\ \A j \in 1 .. Len(batchLog) :
          (batchLog[j][1] = "checkIfExists" /\ Len(batchLog[j]) = 4 /\ j < Len(batchLog)) =>
              (batchLog[j][4] <=> batchLog[j + 1] = <<"pull", batchLog[j][2], batchLog[j][3]>>)
    /\ pc = "UpdateRevisions" =>
          /\ \E e1 \in BOOLEAN, e2 \in BOOLEAN :
                ResetCalls("src") = CheckoutAndPull("src", params.gitSourceBranch, e1)
                                    \o CheckoutAndPull("src", featureBranchName, e2)
          /\ IF params.gitOutputRepo # params.gitSourceRepo
             THEN /\ \E e1 \in BOOLEAN, e2 \in BOOLEAN :
                        ResetCalls("out") = CheckoutAndPull("out", params.gitOutputBranch, e1)
                                            \o CheckoutAndPull("out", featureBranchName, e2)
                  /\ \A j, h \in 1 .. Len(batchLog) :
                        (batchLog[j][2] = "src" /\ batchLog[h][2] = "out") => j < h
             ELSE \A j \in 1 .. Len(batchLog) : batchLog[j][2] = "src"

\* C27 witness: the resets of a batch are done on two workspaces, the source
\* branch pulled in one and not in the other, the feature branch new in one
\* and pulled in the other.
C27_Witness ==
    /\ pc = "UpdateRevisions"
    /\ Len(batches) = 2
    /\ ResetCalls("src") = CheckoutAndPull("src", "main", TRUE)
                           \o CheckoutAndPull("src", featureBranchName, FALSE)
    /\ ResetCalls("out") = CheckoutAndPull("out", "main", FALSE)
                           \o CheckoutAndPull("out", featureBranchName, TRUE)

\* The inventory cannot be opened or parsed.
Unreadable(file) == ~file.exists \/ ReadAll(file.content).err # NoErr

\* The inventory has a header, which lacks a column the update needs.
LacksUpdateColumn(file) ==
    /\ ~Unreadable(file)
    /\ RecordsOf(file) # <<>>
    /\ ~HasHeader(file, UpdateColumns)

\* C29: when the inventory cannot be opened or parsed, or its header lacks
\* a required column, updatePlatformAndWorkloadRepositoryRevision returns an
\* error and the file is exactly what it was before the call.
C29_FileIntactOnReadError ==
    \A j \in 1 .. Len(fnHist) :
        (/\ fnIn.op = "updatePlatformAndWorkloadRepositoryRevision"
         /\ Unreadable(fnHist[j].before) \/ LacksUpdateColumn(fnHist[j].before)) =>
            /\ ~fnHist[j].result.panicked
            /\ fnHist[j].result.err # NoErr
            /\ fnHist[j].result.value = fnHist[j].before
            /\ j = Len(fnHist) => fnFile = fnHist[j].before

\* C29 witness: an update was asked of an inventory with two rows and no
\* revision columns, and has returned.
C29_Witness ==
    /\ fnIn.op = "updatePlatformAndWorkloadRepositoryRevision"
    /\ fnHist # <<>>
    /\ LacksUpdateColumn(fnHist[1].before)
    /\ Len(RecordsOf(fnHist[1].before)) = 3
    /\ fnIn.clusterNames # <<>>
    /\ fnHist[1].result.err = FieldsNotFoundError(<<Str("platform_repository_revision"),
                                                    Str("workload_repository_revision")>>)

\* The waits in the log of the current batch.
Sleeps == {j \in 1 .. Len(batchLog) : batchLog[j][1] = "Sleep"}

\* A batch has just ended and the loop is at its test.
BatchEnded == pc = "BatchLoop" /\ batches # <<>>

\* C30: when a batch has ended and another follows, the batch has ended with
\* one full wait; when no batch follows, it has ended without a wait, and
\* the artifact is uploaded with no wait after the last batch.
C30_WaitOnlyBetweenBatches ==
    /\ (BatchEnded /\ ~LoopDone) =>
          /\ Cardinality(Sleeps) = 1
          /\ batchLog[Len(batchLog)] = Ev("Sleep", "", "hydrationWaitTimeBetweenBatches")
    /\ (BatchEnded /\ LoopDone) => Sleeps = {}
    /\ (artifacts # <<>> /\ batches # <<>>) => Sleeps = {}

\* C30, the first half: every batch that has ended has ended with one full
\* wait, so two consecutive batches are separated by one.
C30_WaitAfterEveryBatch ==
    BatchEnded =>
        /\ Cardinality(Sleeps) = 1
        /\ batchLog[Len(batchLog)] = Ev("Sleep", "", "hydrationWaitTimeBetweenBatches")

\* process has returned an error that is UploadResult's, wrapped.
UploadFailed ==
    /\ ret # NoErr
    /\ ret[1] \in {"error uploading failed deploy results", "error uploading deploy results"}
    /\ SubSeq(ret, 2, Len(ret)) \in UploadErrors \ {NoErr}

\* C31: process returns an error if and only if deploy failed or the upload
\* of the result failed; when deploy fails and the failed result is uploaded,
\* process returns an error.
C31_ProcessReportsFailure ==
    pc = "done" =>
        /\ (err # NoErr \/ UploadFailed) => ret # NoErr
        /\ ret # NoErr => (err # NoErr \/ UploadFailed)

\* C31, what process does: it returns an error exactly when the upload of
\* the result failed, whether deploy failed or not.
C31_ProcessReportsUploadOnly ==
    pc = "done" => (ret # NoErr <=> UploadFailed)

\* deploy has returned a successful result after two batches or more, and the
\* last reset has found the source branch on the remote and pulled it.
SucceededAfterBatches ==
    /\ pc \in {"DeployReturned", "done"}
    /\ res # Nil
    /\ res.ResultStatus = "SUCCEEDED"
    /\ numBatches >= 2
    /\ <<"checkIfExists", "src", params.gitSourceBranch, TRUE>> \in Range(batchLog)

\* The clusters with the new revisions in the inventory that was uploaded:
\* the file of the source workspace's working tree.
UploadedInventory == git["src"].tree

\* C32: after a successful deploy of two batches or more, the uploaded
\* inventory has the new revisions for every selected cluster, of every
\* batch, whether pull requests are merged or not.
C32_InventoryIsCumulative ==
    SucceededAfterBatches => Range(clustersToUpdate) \subseteq UploadedInventory

\* C32, what deploy does: without the merge the uploaded inventory has the
\* new revisions for the clusters of the last batch only; with the merge
\* into the source branch it has them for every selected cluster.
C32_LastBatchUnlessMerged ==
    SucceededAfterBatches =>
        UploadedInventory =
            IF params.enablePullRequestMerge /\ params.gitOutputBranch = params.gitSourceBranch
            THEN Range(clustersToUpdate)
            ELSE Range(batches[Len(batches)])


\* ---------------------------------------------------------------- C33

\* The directories cleanHydratedDirectory was called on, and the directories
\* the renderer was given as -y, in the batches so far.
ClearedDirectories == {batchLog[j][2] : j \in {k \in 1 .. Len(batchLog) : batchLog[k][1] = "cleanHydratedDirectory"}}

RenderedDirectories == {batchLog[j][2] : j \in {k \in 1 .. Len(batchLog) : batchLog[k][1] = "hydrate"}}

\* C33: in every batch, with one repository as with two, the directory the
\* Hydrate step clears is the directory the renderer is told to write into.
C33_ClearedIsRendered ==
    RenderedDirectories # {} => ClearedDirectories = RenderedDirectories

\* What the code does: the directory cleared is under the output repository's
\* workspace and the directory rendered into is under the source repository's,
\* the same directory only when the two workspaces are one.
C33_ClearedInOutputRenderedInSource ==
    RenderedDirectories # {} =>
      /\ ClearedDirectories = {gitOutputRepo.repoName \o "/output"}
      /\ RenderedDirectories = {gitSourceRepo.repoName \o "/output"}
      /\ params.gitSourceRepo = params.gitOutputRepo
           => ClearedDirectories = RenderedDirectories
      /\ gitOutputRepo.repoName # gitSourceRepo.repoName
           => ClearedDirectories \cap RenderedDirectories = {}

\* ---------------------------------------------------------------- C34

\* deploy has failed with the empty-diff error (deploy.go 180 and 199).
NoDiffFailure ==
    /\ Len(err) = 2
    /\ err[1] = "no diff detected between the rendered manifest and the manifest on branch"

\* The calls of the current batch that publish it: commit, push, the opening
\* and the merge of a pull request.
Published ==
    {j \in 1 .. Len(batchLog) :
        batchLog[j][1] \in {"commit", "push", "OpenPullRequest", "MergePullRequest"}}

\* C34: when deploy fails with the "no diff detected" error in a batch, nothing
\* has been committed, pushed, opened as a pull request or merged for that
\* batch, in the source workspace or in the output workspace.
C34_NoDiffLeavesBatchUnpublished == NoDiffFailure => Published = {}

\* What the code does: an empty diff of the source workspace leaves the batch
\* unpublished; an empty diff of the output workspace is found after the source
\* workspace's commit, push and pull request, and before the output's.
C34_NoDiffLeavesWorkspaceUnpublished ==
    NoDiffFailure =>
      LET last == batchLog[Len(batchLog)]
      IN  /\ last[1] = "detectDiff"
          /\ \A j \in Published : batchLog[j][2] # last[2]
          /\ last[2] = gitSourceRepo.repoName => Published = {}
          /\ last[2] # gitSourceRepo.repoName =>
               {"commit", "push", "OpenPullRequest"} \subseteq {batchLog[j][1] : j \in Published}
          /\ <<last[2], featureBranchName>> \notin pushed
          /\ \A pr \in pullRequests : ~(pr.repo = last[2] /\ pr.from = featureBranchName)


\* ---------------------------------------------------------------- C35

\* determineClustersToUpdate has returned, with no cluster.
EmptySelection == Selected /\ clustersToUpdate = <<>>

\* C35: when no cluster is selected, whatever the batch size, deploy runs no
\* step of a batch (no reset, update, renderer run, commit, push, pull request
\* or wait): the step after the selection is the upload of the inventory, and
\* deploy returns the status succeeded when the upload has succeeded.
C35_EmptySelectionSkipsBatches ==
    EmptySelection =>
      /\ pc \in {"BatchLoop", "DeployReturned", "done"}
      /\ batches = <<>> /\ batchLog = <<>>
      /\ "PerBatch" \notin Range(states)
      /\ pushed = {} /\ pullRequests = {}
      /\ batchCounter = 1 /\ i = 0
      /\ pc = "BatchLoop" => artifacts = <<>> /\ err = NoErr
      /\ pc # "BatchLoop" =>
           /\ artifacts = <<gitSourceRepo.repoName \o "/source_of_truth.csv">>
           /\ IF err = NoErr
              THEN res # Nil /\ res.ResultStatus = "SUCCEEDED"
              ELSE err[2] = "UploadArtifact"

\* C35 witness: deploy has succeeded on an empty selection, the batch size
\* being unset (0).
C35_Witness ==
    /\ EmptySelection
    /\ params.hydrationBatchSize = 0
    /\ pc = "DeployReturned"
    /\ res # Nil /\ res.ResultStatus = "SUCCEEDED"


\* ---------------------------------------------------------------- C36

\* The pull request deploy opens for the current batch in a workspace.
OpenedFor(repo) ==
    {pr \in pullRequests : pr.repo = repo.repoName /\ pr.from = featureBranchName}

\* The step of the current batch is past the source workspace's pull-request
\* handling (deploy.go 188-190), and past the output workspace's (207-209).
PastHandleDestSource == pc \in {"DetectDiffOutput", "CommitPushOutput", "HandleDestOutput", "Wait"}

PastHandleDestOutput == pc = "Wait" /\ HasDistinctOutput

NamesTheHeader == Contains(fnIn.clusterNames, Str("cluster_name"))

\* C37: the first record of the file after updatePlatformAndWorkloadRepositoryRevision
\* is the first record before it, whatever the inventory, the revisions and
\* the names, "cluster_name" among them.
C37_HeaderUnchanged ==
    \A c \in Updates : RecordsOf(c.result.value)[1] = RecordsOf(c.before)[1]

\* What the code does: the header is a record like the others; it is
\* unchanged unless "cluster_name" is among the names, and is then given the
\* revisions that are not empty in place of the names of their columns.
C37_HeaderUpdatedWhenNamed ==
    \A c \in Updates :
        LET before == RecordsOf(c.before)[1]
            after == RecordsOf(c.result.value)[1]
            platform == Col(before, "platform_repository_revision")
            workload == Col(before, "workload_repository_revision")
        IN  /\ ~NamesTheHeader => after = before
            /\ NamesTheHeader =>
                  /\ Len(after) = Len(before)
                  /\ \A j \in 1 .. Len(before) :
                        j \notin {platform, workload} => after[j] = before[j]
                  /\ fnIn.platformRevision # <<>> => after[platform] = fnIn.platformRevision
                  /\ fnIn.workloadRevision # <<>> => after[workload] = fnIn.workloadRevision
                  /\ (fnIn.platformRevision = <<>> /\ fnIn.workloadRevision = <<>>) => after = before


\* ---------------------------------------------------------------- C38

\* updatePlatformAndWorkloadRepositoryRevision has been applied twice with the
\* same arguments, the first time without an error.
AppliedTwice ==
    /\ fnIn.op = "updatePlatformAndWorkloadRepositoryRevision"
    /\ Len(fnHist) = 2
    /\ fnHist[2].fault = NoFault

\* determineClustersToUpdate gives the same answer on both files, for every
\* group and every list of tags.
SameSelection(before, after) ==
    \A g \in ClusterGroups, any \in AnyTagLists, all \in AllTagLists :
        determineClustersToUpdate(after, g, any, all) = determineClustersToUpdate(before, g, any, all)

\* C38: updatePlatformAndWorkloadRepositoryRevision applied twice with the
\* same arguments leaves the file that applying it once leaves, and
\* determineClustersToUpdate returns the same list before and after a call.
C38_UpdateIsIdempotent ==
    /\ AppliedTwice => fnHist[2].result.value = fnHist[1].result.value
    /\ \A c \in Updates : SameSelection(c.before, c.result.value)

\* What the code does: the selection is the same before and after every call;
\* the second application succeeds and leaves the file of the first unless
\* "cluster_name" is among the names, and then it either fails on the header
\* the first one has rewritten, leaving the file, or updates another column.
C38_IdempotentUnlessHeaderNamed ==
    /\ \A c \in Updates : SameSelection(c.before, c.result.value)
    /\ (AppliedTwice /\ ~NamesTheHeader) =>
          /\ ~fnHist[2].result.panicked
          /\ fnHist[2].result.err = NoErr
          /\ fnHist[2].result.value = fnHist[1].result.value
    /\ (AppliedTwice /\ fnHist[2].result.err # NoErr) =>
          /\ NamesTheHeader
          /\ fnHist[2].result.err[1] = "fields not found in header"
          /\ fnHist[2].result.value = fnHist[1].result.value

====
